---- MODULE Spec2Model ----
(***************************************************************************)
(* A state-machine model of the datacraft-framework medallion pipeline:    *)
(* the control-plane log tables, the unprocessed-file selectors, the       *)
(* extractors, the bronze / silver / gold layer handlers, the worker pool  *)
(* each layer runs its dataset tasks in, and the SCD-2 gold merge.         *)
(***************************************************************************)
EXTENDS Integers, Sequences, FiniteSets, TLC

(***************************************************************************)
(* Strings.  Python str operations used by the path and pattern code.      *)
(***************************************************************************)

\* s[n:] for n >= 0
Drop(s, n) == SubSeq(s, n + 1, Len(s))

\* s[:n]
Take(s, n) == SubSeq(s, 1, IF n < Len(s) THEN n ELSE Len(s))

\* s.startswith(p)
StartsWith(s, p) == Len(p) <= Len(s) /\ SubSeq(s, 1, Len(p)) = p

\* s.endswith(p)
EndsWith(s, p) == Len(p) <= Len(s) /\ SubSeq(s, Len(s) - Len(p) + 1, Len(s)) = p

\* p in s
Contains(s, p) ==
    \E i \in 1..(Len(s) - Len(p) + 1) : SubSeq(s, i, i + Len(p) - 1) = p

\* s.replace(old, new): every non-overlapping occurrence, left to right
RECURSIVE Replace(_, _, _)
Replace(s, old, new) ==
    IF Len(s) < Len(old) THEN s
    ELSE IF StartsWith(s, old) THEN new \o Replace(Drop(s, Len(old)), old, new)
    ELSE Take(s, 1) \o Replace(Tail(s), old, new)

\* s.rstrip(c) for a one-character c
RECURSIVE RStrip(_, _)
RStrip(s, c) ==
    IF Len(s) > 0 /\ EndsWith(s, c) THEN RStrip(Take(s, Len(s) - 1), c) ELSE s

\* s.split(c) for a one-character c: the tuple of segments; the scan is at
\* place i and the segment it is in began at place from
RECURSIVE SplitAcc(_, _, _, _)
SplitAcc(s, c, i, from) ==
    IF i > Len(s) THEN <<SubSeq(s, from, Len(s))>>
    ELSE IF SubSeq(s, i, i) = c THEN <<SubSeq(s, from, i - 1)>> \o SplitAcc(s, c, i + 1, i + 1)
    ELSE SplitAcc(s, c, i + 1, from)

Split(s, c) == SplitAcc(s, c, 1, 1)

\* c.join(segs)
RECURSIVE Join(_, _)
Join(segs, c) ==
    IF Len(segs) = 0 THEN ""
    ELSE IF Len(segs) = 1 THEN segs[1]
    ELSE segs[1] \o c \o Join(Tail(segs), c)

\* s.split("/")[-1]
BaseName(s) == LET p == Split(s, "/") IN p[Len(p)]

Digits == {"0", "1", "2", "3", "4", "5", "6", "7", "8", "9"}

DigitVal(c) ==
    CASE c = "0" -> 0 [] c = "1" -> 1 [] c = "2" -> 2 [] c = "3" -> 3
      [] c = "4" -> 4 [] c = "5" -> 5 [] c = "6" -> 6 [] c = "7" -> 7
      [] c = "8" -> 8 [] c = "9" -> 9

\* the first n characters of s exist and are digits
RECURSIVE LeadingDigits(_, _)
LeadingDigits(s, n) ==
    IF n = 0 THEN TRUE
    ELSE Len(s) > 0 /\ Take(s, 1) \in Digits /\ LeadingDigits(Tail(s), n - 1)

(***************************************************************************)
(* re.match(regex, s) for the regular expressions validate_pattern builds: *)
(* literal characters, '.', '.*' and '[0-9]{n}'.  re.match anchors at the  *)
(* start of s only.                                                        *)
(***************************************************************************)
RECURSIVE regex_pattern_matches(_, _)
regex_pattern_matches(r, s) ==
    IF Len(r) = 0 THEN TRUE
    ELSE IF StartsWith(r, "[0-9]{") THEN
        LET n == DigitVal(SubSeq(r, 7, 7)) IN
        LeadingDigits(s, n) /\ regex_pattern_matches(Drop(r, 8), Drop(s, n))
    ELSE IF StartsWith(r, ".*") THEN
        \E k \in 0..Len(s) : regex_pattern_matches(Drop(r, 2), Drop(s, k))
    ELSE IF StartsWith(r, ".") THEN
        Len(s) > 0 /\ regex_pattern_matches(Tail(r), Tail(s))
    ELSE
        Len(s) > 0 /\ Take(s, 1) = Take(r, 1) /\ regex_pattern_matches(Tail(r), Tail(s))

\* the three date branches of validate_pattern share this shape
ValidateToken(file_pattern, file_name, token, cls) ==
    IF Contains(file_pattern, "*") THEN
        LET parts == Split(file_pattern, "*") IN
        IF Len(parts) # 2 THEN "ValueError"
        ELSE IF regex_pattern_matches(parts[1] \o ".*" \o Replace(parts[2], token, cls), file_name)
             THEN "True" ELSE "False"
    ELSE IF regex_pattern_matches(Replace(file_pattern, token, cls), file_name)
         THEN "True" ELSE "False"

\* validate_pattern: "True", "False", "None" (no branch returns) or the
\* "ValueError" of unpacking a split with more than one '*'
validate_pattern(file_pattern, file_name, custom) ==
    IF ~custom THEN
        IF Contains(file_pattern, "YYYYMMDD")
            THEN ValidateToken(file_pattern, file_name, "YYYYMMDD", "[0-9]{8}")
        ELSE IF Contains(file_pattern, "YYYYMM")
            THEN ValidateToken(file_pattern, file_name, "YYYYMM", "[0-9]{6}")
        ELSE IF Contains(file_pattern, "YYYY")
            THEN ValidateToken(file_pattern, file_name, "YYYY", "[0-9]{4}")
        ELSE "None"
    ELSE IF regex_pattern_matches(file_pattern, file_name) THEN "True" ELSE "False"

\* Python truthiness of validate_pattern's result
Truthy(v) == v = "True"

\* file_name_generator: today is the date as an 8-digit string YYYYMMDD
file_name_generator(save_file_name, today) ==
    IF Contains(save_file_name, "YYYYMMDD") THEN Replace(save_file_name, "YYYYMMDD", today)
    ELSE IF Contains(save_file_name, "YYYYMM") THEN Replace(save_file_name, "YYYYMM", Take(today, 6))
    ELSE IF Contains(save_file_name, "YYYY") THEN Replace(save_file_name, "YYYY", Take(today, 4))
    ELSE save_file_name

\* path_to_s3(location, env)
path_to_s3(location, env) ==
    LET splited == Split(location, "/")
        bucket_name == env \o "-" \o splited[1]
        key_inbound == Join(Tail(splited), "/")
    IN [bucket |-> bucket_name, key |-> key_inbound,
        s3_location |-> "s3a://" \o bucket_name \o "/" \o key_inbound]


(***************************************************************************)
(* The control-plane catalog.  One process; its acquisition rows, bronze   *)
(* and gold dataset masters, transformation dependencies and DQM rules.    *)
(***************************************************************************)

\* SQL NULL / Python None in a string column
Null == "<null>"

\* NULL in logRawProcessDtl.batch_id: the FAILED insert of B2 sets none
NoBatch == 0

AcqRow(platform, inbound) ==
    [process_id |-> 1, pre_ingestion_dataset_id |-> 1,
     outbound_source_platform |-> platform,
     outbound_source_file_pattern |-> "s_YYYYMMDD.csv",
     outbound_source_file_pattern_static |-> "N",
     inbound_location |-> inbound]

BronzeMaster(inbound) ==
    [process_id |-> 1, dataset_id |-> 1, dataset_type |-> "BRONZE",
     inbound_location |-> inbound, inbound_file_pattern |-> "s_YYYYMMDD.csv",
     landing_location |-> "bkt/land1",
     data_standardisation_location |-> "bkt/std1",
     staging_location |-> "bkt/stg1",
     transformation_location |-> Null]

\* a second bronze dataset, whose dataset_id differs from its process_id
AcqRow2 ==
    [process_id |-> 1, pre_ingestion_dataset_id |-> 2,
     outbound_source_platform |-> "DATABASE",
     outbound_source_file_pattern |-> "t_YYYYMMDD.csv",
     outbound_source_file_pattern_static |-> "N",
     inbound_location |-> "bkt/in2/"]

BronzeMaster2 ==
    [process_id |-> 1, dataset_id |-> 2, dataset_type |-> "BRONZE",
     inbound_location |-> "bkt/in2/", inbound_file_pattern |-> "t_YYYYMMDD.csv",
     landing_location |-> "bkt/land2",
     data_standardisation_location |-> "bkt/std2",
     staging_location |-> "bkt/stg2",
     transformation_location |-> Null]

GoldMaster(g, loc, stg) ==
    [process_id |-> 1, dataset_id |-> g, dataset_type |-> "GOLD",
     inbound_location |-> Null, inbound_file_pattern |-> Null,
     landing_location |-> Null, data_standardisation_location |-> Null,
     staging_location |-> stg,
     transformation_location |-> loc]

DepRow(g, dep) ==
    [process_id |-> 1, dataset_id |-> g, depedent_dataset_id |-> dep,
     transformation_type |-> "direct", primary_keys |-> "id"]

\* a dependency row of a join: the rows of a gold dataset stand in the order
\* of their transformation_step
JoinDepRow(g, dep, how, left, right) ==
    [process_id |-> 1, dataset_id |-> g, depedent_dataset_id |-> dep,
     transformation_type |-> "join", primary_keys |-> "id",
     join_how |-> how, left_table_columns |-> left, right_table_columns |-> right]

\* a dependency row of a union, with its extra_values
UnionDepRow(g, dep, extra_values) ==
    [process_id |-> 1, dataset_id |-> g, depedent_dataset_id |-> dep,
     transformation_type |-> "union", primary_keys |-> "id",
     extra_values |-> extra_values]

\* a ctlDqmMasterDtl row: a null check on column val
DqmRule(crit, pct) ==
    [qc_id |-> 1, process_id |-> 1, dataset_id |-> 1, column_name |-> "val",
     qc_type |-> "null", criticality |-> crit, criticality_threshold_pct |-> pct]

\* a ctlDqmMasterDtl row of any kind, on a column of bronze dataset 1
DqmRuleOf(qc_id, kind, column, param, crit, pct) ==
    [qc_id |-> qc_id, process_id |-> 1, dataset_id |-> 1, column_name |-> column,
     qc_type |-> kind, qc_param |-> param, criticality |-> crit,
     criticality_threshold_pct |-> pct]

\* a ctlDqmMasterDtl row with its active_flag, on a column of a bronze dataset
DqmRuleFlagged(qc_id, dataset_id, kind, column, crit, pct, active) ==
    [qc_id |-> qc_id, process_id |-> 1, dataset_id |-> dataset_id, column_name |-> column,
     qc_type |-> kind, qc_param |-> Null, active_flag |-> active, criticality |-> crit,
     criticality_threshold_pct |-> pct]

\* a ctlDataStandardisationDtl row
StdRule(fn, type) ==
    [dataset_id |-> 1, column_name |-> "val", function_name |-> fn, type |-> type]

\* ctlColumnMetadata of the bronze datasets: source column -> column
ColumnMeta ==
    <<[source_column_name |-> "ID", column_name |-> "id"],
      [source_column_name |-> "VAL", column_name |-> "val"]>>

\* ctlColumnMetadata of the gold datasets: the declared columns, in order
GoldColumns == <<"id", "val">>

Catalog(env, threads, platform, inbound, two, golds, dqm) ==
    [env |-> env, max_threads |-> threads, std |-> <<>>,
     acq |-> IF two THEN <<AcqRow(platform, inbound), AcqRow2>> ELSE <<AcqRow(platform, inbound)>>,
     bronze |-> IF two THEN <<BronzeMaster(inbound), BronzeMaster2>> ELSE <<BronzeMaster(inbound)>>,
     gold |-> golds,
     deps |-> [i \in 1..Len(golds) |-> DepRow(golds[i].dataset_id, 1)],
     dqm |-> dqm]

Gold3 == <<GoldMaster(3, "bkt/gold3", "bkt/stg3")>>

Gold34 == <<GoldMaster(3, "bkt/gold3", "bkt/stg3"), GoldMaster(4, "bkt/gold4", "bkt/stg4")>>

Platforms == {"SFTP", "S3", "DATABASE", "SALESFORCE", "API"}

\* the catalogs the bronze runs are checked over
BronzeCatalogs ==
    {Catalog(e, 2, p, loc, FALSE, Gold3, <<>>) :
        e \in {"prod", "dev"}, p \in Platforms, loc \in {"bkt/in/", "bkt/in"}}
    \cup {Catalog("prod", t, "SFTP", "bkt/in/", TRUE, Gold3, <<>>) : t \in {1, 2}}

(***************************************************************************)
(* The world outside: the calendar, the source system, the object store.   *)
(***************************************************************************)

\* the dates a run can fall on, as strftime("%Y%m%d") renders them
Days == <<"20250101", "20250102">>

\* the names the source system can hold, in listing order
SrcNames == <<"s_20250101.csv", "s_20250102.csv">>

\* what the source holds under a name (columns ID, VAL; every value a string)
FileRows(name) ==
    IF EndsWith(name, "20250101.csv")
    THEN <<[ID |-> "1", VAL |-> "A"], [ID |-> "2", VAL |-> Null]>>
    ELSE <<[ID |-> "1", VAL |-> "B"]>>

VARIABLES
    ctl,        \* the catalog rows of the process
    day,        \* index into Days: today
    clock,      \* the last batch_id minted from datetime.now()
    remote,     \* names present in the SFTP directory / source bucket
    s3,         \* objects of the object store: [bucket, key, rows]
    tables,     \* Delta tables: s3 location -> sequence of rows
    logAcq,     \* log_acquisition, in insertion order
    logRaw,     \* log_raw_process
    logStd,     \* log_standardization
    logDqm,     \* log_dqm
    logTrn,     \* log_transformation
    layer,      \* the pool that is running: idle, B1, B2, silver, gold
    task,       \* dataset id -> the state of its task in the running pool
    hist,       \* every layer call that returned: [layer, err, ...]
    run,        \* what the running call saw when it started
    faults      \* transport failures injected so far

vars == <<ctl, day, clock, remote, s3, tables, logAcq, logRaw, logStd, logDqm,
          logTrn, layer, task, hist, run, faults>>

Today == Days[day]

\* the SUCCEEDED/FAILED rows the five log tables take
AcqLog(acq, batch, loc, status) ==
    [batch_id |-> batch, process_id |-> acq.process_id,
     pre_ingestion_dataset_id |-> acq.pre_ingestion_dataset_id,
     inbound_file_location |-> loc, status |-> status]

\* "s3a://bucket/key" -> [bucket, key]
S3aSplit(url) ==
    LET rest == Drop(url, 6)
        segs == Split(rest, "/")
    IN [bucket |-> segs[1], key |-> Join(Tail(segs), "/")]

\* upload_fileobj / write_csv: an object replaces the one under its key
S3Put(store, obj) ==
    {o \in store : ~(o.bucket = obj.bucket /\ o.key = obj.key)} \cup {obj}

RECURSIVE S3PutAll(_, _)
S3PutAll(store, objs) ==
    IF Len(objs) = 0 THEN store ELSE S3PutAll(S3Put(store, Head(objs)), Tail(objs))

\* the key every Delta table keeps its first commit under
DeltaLogKey(key) == key \o "/_delta_log/00000000000000000000.json"

\* every key of a bucket: raw objects and the files of the Delta tables
BucketKeys(store, tbls, bucket) ==
    {o.key : o \in {x \in store : x.bucket = bucket}}
    \cup {DeltaLogKey(S3aSplit(loc).key) :
            loc \in {l \in DOMAIN tbls : S3aSplit(l).bucket = bucket}}

\* S3Process.s3_list_files: the keys under the prefix (the empty set stands
\* for the False it returns when there is none)
s3_list_files(store, tbls, bucket, file_name) ==
    {k \in BucketKeys(store, tbls, bucket) : StartsWith(k, file_name)}

\* BronzeInboundWriter: writes only when the location names csv or txt
BronzeInboundWriter(rows, save_location) ==
    IF Contains(save_location, "csv") \/ Contains(save_location, "txt")
    THEN <<[bucket |-> S3aSplit(save_location).bucket,
            key |-> S3aSplit(save_location).key, rows |-> rows]>>
    ELSE <<>>



(***************************************************************************)
(* B1: the extractors.  Each returns what one call did: the log rows it    *)
(* inserted, the inbound objects it wrote, the error it raised ("" when it *)
(* returned), and the clock after the batch ids it minted.                 *)
(***************************************************************************)

Outcome(log, put, err, clk) ==
    [log |-> log, put |-> put, err |-> err, clock |-> clk, n_new |-> 0, bound |-> 0]

\* the rows a query-based source (database, SaaS, REST) returns
QueryRows == FileRows("s_20250101.csv")

\* f"s3a://prod-{inbound_location.rstrip('/')}/{file_}"
ProdSaveLocation(inbound_location, file_) ==
    "s3a://prod-" \o RStrip(inbound_location, "/") \o "/" \o file_

\* the object the SFTP and S3 extractors upload
ProdObject(inbound_location, file_) ==
    LET splited_ == Split(inbound_location, "/")
    IN [bucket |-> "prod-" \o splited_[1],
        key |-> Join(Tail(splited_), "/") \o BaseName(file_),
        rows |-> FileRows(file_)]

RECURSIVE SftpFiles(_, _, _, _, _)
SftpFiles(files, acq, processed, fault, st) ==
    IF Len(files) = 0 \/ st.err # "" THEN st
    ELSE
      LET file_ == Head(files)
          save_location_ == ProdSaveLocation(acq.inbound_location, file_)
          v == validate_pattern(acq.outbound_source_file_pattern, file_,
                                acq.outbound_source_file_pattern_static = "Y")
          b == st.clock + 1
      IN IF save_location_ \in processed
           THEN SftpFiles(Tail(files), acq, processed, fault, st)
         ELSE IF v = "ValueError" THEN
           \* the handler reads batch_id and start_time, unbound on a first file
           IF st.bound = 0 THEN [st EXCEPT !.err = "UnboundLocalError"]
           ELSE [st EXCEPT !.log = Append(@, AcqLog(acq, st.bound, Null, "FAILED")),
                           !.err = "ValueError"]
         ELSE IF ~Truthy(v)
           THEN SftpFiles(Tail(files), acq, processed, fault, st)
         ELSE IF fault = "copy"
           THEN [st EXCEPT !.log = Append(@, AcqLog(acq, b, Null, "FAILED")),
                           !.err = "IOError", !.clock = b, !.n_new = @ + 1]
         ELSE SftpFiles(Tail(files), acq, processed, fault,
                [st EXCEPT !.log = Append(@, AcqLog(acq, b, save_location_, "SUCCEEDED")),
                           !.put = Append(@, ProdObject(acq.inbound_location, file_)),
                           !.clock = b, !.bound = b, !.n_new = @ + 1])

SftpExtractor(acq, processed, files, fault, clk) ==
    IF fault = "connect" THEN Outcome(<<>>, <<>>, "SSHException", clk)
    ELSE LET st == SftpFiles(files, acq, processed, fault, Outcome(<<>>, <<>>, "", clk))
         IN IF st.err = "" /\ st.n_new = 0
            THEN [st EXCEPT !.err = "No unprocessed files are found."] ELSE st

RECURSIVE S3Files(_, _, _, _, _)
S3Files(files, acq, processed, fault, st) ==
    IF Len(files) = 0 \/ st.err # "" THEN st
    ELSE
      LET file_name_s3 == BaseName(Head(files))
          v == validate_pattern(acq.outbound_source_file_pattern, file_name_s3,
                                acq.outbound_source_file_pattern_static = "Y")
          file_save_name == ProdSaveLocation(acq.inbound_location, file_name_s3)
          b == st.clock + 1
      IN IF v = "ValueError" THEN [st EXCEPT !.err = "ValueError"]
         ELSE IF ~Truthy(v) THEN S3Files(Tail(files), acq, processed, fault, st)
         ELSE IF file_save_name \in processed
           THEN S3Files(Tail(files), acq, processed, fault, st)
         ELSE IF fault = "copy"
           THEN [st EXCEPT !.log = Append(@, AcqLog(acq, b, Null, "FAILED")),
                           !.err = "ClientError", !.clock = b, !.n_new = @ + 1]
         ELSE S3Files(Tail(files), acq, processed, fault,
                [st EXCEPT !.log = Append(@, AcqLog(acq, b, file_save_name, "SUCCEEDED")),
                           !.put = Append(@, ProdObject(acq.inbound_location, file_name_s3)),
                           !.clock = b, !.bound = b, !.n_new = @ + 1])

S3Extractor(acq, processed, files, fault, clk) ==
    IF fault = "connect" THEN Outcome(<<>>, <<>>, "ClientError", clk)
    ELSE LET st == S3Files(files, acq, processed, fault, Outcome(<<>>, <<>>, "", clk))
         IN IF Len(files) > 0 /\ st.err = "" /\ st.n_new = 0
            THEN [st EXCEPT !.err = "No unprocessed files are found."] ELSE st

\* the shape the database, Salesforce and API extractors share: check is the
\* uri looked up in the logged locations, save the uri written and logged
QueryExtract(acq, processed, fault, clk, check, save) ==
    IF check \in processed
    THEN Outcome(<<>>, <<>>, "already processed to Bronze Layer", clk)
    ELSE IF fault # "none"
    THEN Outcome(<<AcqLog(acq, clk + 1, Null, "FAILED")>>, <<>>, "ConnectionError", clk + 1)
    ELSE Outcome(<<AcqLog(acq, clk + 1, save, "SUCCEEDED")>>,
                 BronzeInboundWriter(QueryRows, save), "", clk + 1)

DatabaseExtractor(acq, processed, fault, clk, env, today) ==
    LET file_name == file_name_generator(acq.outbound_source_file_pattern, today)
        save_location_s3 == path_to_s3(RStrip(acq.inbound_location, "/"), env).s3_location
        save_location_ == save_location_s3 \o "/" \o file_name
    IN QueryExtract(acq, processed, fault, clk, save_location_, save_location_)

SalesforceExtractor(acq, processed, fault, clk, today) ==
    LET file_name == file_name_generator(acq.outbound_source_file_pattern, today)
        save_location_ == ProdSaveLocation(acq.inbound_location, file_name)
    IN QueryExtract(acq, processed, fault, clk, save_location_, save_location_)

APIExtractor(acq, processed, fault, clk, env, today) ==
    LET file_name == file_name_generator(acq.outbound_source_file_pattern, today)
        save_location_ == path_to_s3(RStrip(acq.inbound_location, "/"), env).s3_location
        save_location == save_location_ \o "/" \o file_name_generator(file_name, today)
    IN QueryExtract(acq, processed, fault, clk, save_location_, save_location)

\* BronzeLayer._handle_extraction: the SUCCEEDED locations, then the extractor
\* of the platform; a platform none of the branches names runs nothing
PreIngestionLocations(log, acq) ==
    {r.inbound_file_location :
        r \in {x \in {log[i] : i \in DOMAIN log} :
                 /\ x.process_id = acq.process_id
                 /\ x.pre_ingestion_dataset_id = acq.pre_ingestion_dataset_id
                 /\ x.status = "SUCCEEDED"}}

handle_extraction(acq, processed, files, fault, clk, env, today) ==
    LET p == acq.outbound_source_platform IN
    CASE p = "SFTP" -> SftpExtractor(acq, processed, files, fault, clk)
      [] p = "S3" -> S3Extractor(acq, processed, files, fault, clk)
      [] p = "DATABASE" -> DatabaseExtractor(acq, processed, fault, clk, env, today)
      [] p \in {"SALESFORCE", "VEEVA"} -> SalesforceExtractor(acq, processed, fault, clk, today)
      [] p = "API" -> APIExtractor(acq, processed, fault, clk, env, today)
      [] OTHER -> Outcome(<<>>, <<>>, "", clk)


(***************************************************************************)
(* The worker pool of a layer.  ThreadPoolExecutor(max_workers): tasks are *)
(* taken from the queue in submission order, at most max_workers at once;  *)
(* leaving the with-block waits for every submitted task.                  *)
(***************************************************************************)

\* calls of layers one behaviour makes
MaxCalls == 3

\* transport failures one behaviour suffers
MaxFaults == 1

FaultKinds == {"none", "connect", "copy"}

Min(a, b) == IF a < b THEN a ELSE b

RECURSIVE SetToSeq(_)
SetToSeq(S) ==
    IF S = {} THEN <<>>
    ELSE LET x == CHOOSE y \in S : TRUE IN <<x>> \o SetToSeq(S \ {x})

SeqToSet(q) == {q[i] : i \in DOMAIN q}

\* the dataset ids a pool is submitted, in submission order
PoolOrder(l) ==
    CASE l = "B1" -> [i \in DOMAIN ctl.acq |-> ctl.acq[i].pre_ingestion_dataset_id]
      [] l \in {"B2", "silver"} -> [i \in DOMAIN ctl.bronze |-> ctl.bronze[i].dataset_id]
      [] l = "gold" -> [i \in DOMAIN ctl.gold |-> ctl.gold[i].dataset_id]
      [] OTHER -> <<>>

\* a pool that is given one worker when there is no dataset
PoolSizeAtLeastOne(l) == IF Len(PoolOrder(l)) = 0 THEN 1 ELSE Min(ctl.max_threads, Len(PoolOrder(l)))

\* max_workers=min(max_threads, len(datasets))
PoolSize(l) == Min(ctl.max_threads, Len(PoolOrder(l)))

\* first: how the first stage of a two-stage task returned ("" until it does)
\* rows, puts, seen: what an extraction inserted, wrote and had read as done
Queued ==
    [st |-> "queued", pc |-> "", todo |-> <<>>, err |-> "", first |-> "",
     rows |-> <<>>, puts |-> {}, seen |-> {}]

Submit(l) == [d \in SeqToSet(PoolOrder(l)) |-> Queued]

Running(t) == {d \in DOMAIN t : t[d].st = "running"}

\* a worker is free and nothing submitted earlier is still queued
CanStart(d) ==
    /\ Cardinality(Running(task)) < PoolSize(layer)
    /\ \A i, j \in DOMAIN PoolOrder(layer) :
         (PoolOrder(layer)[j] = d /\ i < j) => task[PoolOrder(layer)[i]].st # "queued"

\* a join that stops waiting as soon as one task has failed
FailFast(t) ==
    (\E d \in DOMAIN t : t[d].st = "failed") \/ (\A d \in DOMAIN t : t[d].st \in {"done", "failed"})

\* shutdown(wait=True): every submitted task has finished
PoolDrained(t) == \A d \in DOMAIN t : t[d].st \in {"done", "failed"}

\* a result loop that re-raises nothing
NoError(order, t) == ""

\* for future in futures: future.result() -- the first failure in
\* submission order is the one raised ("" when none failed)
RECURSIVE FirstError(_, _)
FirstError(order, t) ==
    IF Len(order) = 0 THEN ""
    ELSE IF t[Head(order)].st = "failed" THEN t[Head(order)].err
    ELSE FirstError(Tail(order), t)

Fail(t, e) == [t EXCEPT !.st = "failed", !.err = e, !.todo = <<>>]

Done(t) == [t EXCEPT !.st = "done", !.todo = <<>>]

AcqOf(d) == CHOOSE a \in SeqToSet(ctl.acq) : a.pre_ingestion_dataset_id = d

BronzeOf(d) == CHOOSE m \in SeqToSet(ctl.bronze) : m.dataset_id = d

TableRows(tbls, loc) == IF loc \in DOMAIN tbls THEN tbls[loc] ELSE <<>>

\* rows of every landing table
LandingCount(tbls) ==
    LET locs == {path_to_s3(m.landing_location, ctl.env).s3_location : m \in SeqToSet(ctl.bronze)}
        RECURSIVE Sum(_)
        Sum(S) == IF S = {} THEN 0
                  ELSE LET x == CHOOSE y \in S : TRUE IN Len(TableRows(tbls, x)) + Sum(S \ {x})
    IN Sum(locs)

\* what a call finds when it starts; b1 takes the B1 tasks once they joined
Snapshot(kind, unprocessed) ==
    [layer |-> kind, day |-> day, remote |-> remote, raw0 |-> Len(logRaw),
     land0 |-> LandingCount(tables), s30 |-> s3, faults0 |-> faults,
     u0 |-> unprocessed, b1 |-> <<>>]

\* the record of a call that returned or raised: the pool that joined last,
\* its tasks, the error raised ("" when the call returned)
Returned(r, stage, e, t) ==
    [layer |-> r.layer, stage |-> stage, err |-> e, tasks |-> t,
     b1 |-> IF stage = "B1" THEN t ELSE r.b1,
     day0 |-> r.day, remote0 |-> r.remote, remote1 |-> remote,
     raw0 |-> r.raw0, raw1 |-> Len(logRaw), land0 |-> r.land0, land1 |-> LandingCount(tables),
     s30 |-> r.s30, s31 |-> s3, faults0 |-> r.faults0, faults1 |-> faults, u0 |-> r.u0]

NoRun ==
    [layer |-> "", day |-> 0, remote |-> {}, raw0 |-> 0, land0 |-> 0, s30 |-> {},
     faults0 |-> 0, u0 |-> <<>>, b1 |-> <<>>]

\* names of the source system that are neither CSV nor TXT
OtherNames == <<"s_20250101.dat">>

\* the directory listing of the source
RemoteList == SelectSeq(SrcNames \o OtherNames, LAMBDA n : n \in remote)

(***************************************************************************)
(* The bronze layer: BronzeLayer.start_extraction                          *)
(***************************************************************************)

\* a pool of no worker cannot be built
StartPool(l, kind, unprocessed) ==
    IF PoolSize(l) = 0
    THEN /\ hist' = Append(hist, Returned(Snapshot(kind, unprocessed), l, "ValueError", <<>>))
         /\ UNCHANGED <<layer, task, run>>
    ELSE /\ layer' = l
         /\ task' = Submit(l)
         /\ run' = Snapshot(kind, unprocessed)
         /\ UNCHANGED hist

CallBronze ==
    /\ layer = "idle"
    /\ Len(hist) < MaxCalls
    /\ StartPool("B1", "bronze", <<>>)
    /\ UNCHANGED <<ctl, day, clock, remote, s3, tables, logAcq, logRaw, logStd, logDqm, logTrn, faults>>

TaskStart(d) ==
    /\ layer # "idle"
    /\ d \in DOMAIN task
    /\ task[d].st = "queued"
    /\ CanStart(d)
    /\ task' = [task EXCEPT ![d].st = "running", ![d].pc = "begin"]
    /\ UNCHANGED <<ctl, day, clock, remote, s3, tables, logAcq, logRaw, logStd, logDqm, logTrn, layer, hist, run, faults>>

Inject(fault) ==
    /\ fault # "none" => faults < MaxFaults
    /\ faults' = IF fault = "none" THEN faults ELSE faults + 1

\* one _handle_extraction task
B1Run(d) ==
    /\ layer = "B1"
    /\ d \in DOMAIN task
    /\ task[d].st = "running"
    /\ \E fault \in FaultKinds :
        LET acq == AcqOf(d)
            out == handle_extraction(acq, PreIngestionLocations(logAcq, acq), RemoteList,
                                     fault, clock, ctl.env, Today)
        IN /\ Inject(fault)
           /\ logAcq' = logAcq \o out.log
           /\ s3' = S3PutAll(s3, out.put)
           /\ clock' = out.clock
           /\ task' = [task EXCEPT ![d] =
                         [(IF out.err = "" THEN Done(@) ELSE Fail(@, out.err)) EXCEPT
                            !.rows = out.log,
                            !.puts = {"s3a://" \o o.bucket \o "/" \o o.key : o \in SeqToSet(out.put)},
                            !.seen = PreIngestionLocations(logAcq, acq)]]
    /\ UNCHANGED <<ctl, day, remote, tables, logRaw, logStd, logDqm, logTrn, layer, hist, run>>

RawLog(m, batch, file, status) ==
    [batch_id |-> batch, process_id |-> ctl.bronze[1].process_id, dataset_id |-> m.dataset_id,
     source_file |-> file, file_status |-> status]

\* get_log_raw_process_dtl(process_id, dataset_id, status)
get_log_raw_process_dtl(log, process_id, dataset_id, status) ==
    SelectSeq(log, LAMBDA r : r.process_id = process_id /\ r.dataset_id = dataset_id
                              /\ r.file_status = status)

\* the head of the landing step without the subtraction of the landed files
NewFilesAll(m) ==
    LET inbound_path == path_to_s3(m.inbound_location, ctl.env)
    IN {x \in {"s3a://" \o inbound_path.bucket \o "/" \o k :
                 k \in s3_list_files(s3, tables, inbound_path.bucket, inbound_path.key)} :
          Truthy(validate_pattern(m.inbound_file_pattern, BaseName(x), FALSE))}

\* the head of _handle_raw_table_creation: the inbound files not yet landed
NewFiles(m) ==
    LET inbound_path == path_to_s3(m.inbound_location, ctl.env)
        files_in_inbound == {"s3a://" \o inbound_path.bucket \o "/" \o x :
                                x \in s3_list_files(s3, tables, inbound_path.bucket, inbound_path.key)}
        ingestion_logs == get_log_raw_process_dtl(logRaw, m.process_id, m.dataset_id, "SUCCEEDED")
        raw_completed_files == {r.source_file : r \in SeqToSet(ingestion_logs)}
    IN {x \in files_in_inbound \ raw_completed_files :
          Truthy(validate_pattern(m.inbound_file_pattern, BaseName(x), FALSE))}

\* validate_pattern raises over one of the candidate files (the unpacking of
\* a pattern with more than one '*'), and the comprehension with it
PatternRaises(m) ==
    LET inbound_path == path_to_s3(m.inbound_location, ctl.env)
        files_in_inbound == {"s3a://" \o inbound_path.bucket \o "/" \o x :
                                x \in s3_list_files(s3, tables, inbound_path.bucket, inbound_path.key)}
        ingestion_logs == get_log_raw_process_dtl(logRaw, m.process_id, m.dataset_id, "SUCCEEDED")
        raw_completed_files == {r.source_file : r \in SeqToSet(ingestion_logs)}
    IN \E x \in files_in_inbound \ raw_completed_files :
          validate_pattern(m.inbound_file_pattern, BaseName(x), FALSE) = "ValueError"

\* s3_list_files returned False: the comprehension over it raises
InboundEmpty(m) ==
    LET inbound_path == path_to_s3(m.inbound_location, ctl.env)
    IN s3_list_files(s3, tables, inbound_path.bucket, inbound_path.key) = {}

B2Begin(d) ==
    /\ layer = "B2"
    /\ d \in DOMAIN task
    /\ task[d].st = "running"
    /\ task[d].pc = "begin"
    /\ task' = [task EXCEPT ![d] =
                  IF InboundEmpty(BronzeOf(d)) THEN Fail(@, "TypeError")
                  ELSE IF PatternRaises(BronzeOf(d)) THEN Fail(@, "ValueError")
                  ELSE IF NewFiles(BronzeOf(d)) = {}
                       THEN Fail(@, "No new files found to create raw delta table.")
                  ELSE [@ EXCEPT !.pc = "land", !.todo = SetToSeq(NewFiles(BronzeOf(d)))]]
    /\ UNCHANGED <<ctl, day, clock, remote, s3, tables, logAcq, logRaw, logStd, logDqm, logTrn, layer, hist, run, faults>>

\* the object a uri names
ReadObject(store, uri) ==
    LET at == S3aSplit(uri)
    IN CHOOSE o \in store : o.bucket = at.bucket /\ o.key = at.key

\* the stamp of another batch
StampShifted(rows, batch_id) ==
    [i \in DOMAIN rows |-> [c \in (DOMAIN rows[i]) \cup {"batch_id"} |->
                              IF c = "batch_id" THEN batch_id + 1 ELSE rows[i][c]]]

Stamp(rows, batch_id) ==
    [i \in DOMAIN rows |-> [c \in (DOMAIN rows[i]) \cup {"batch_id"} |->
                              IF c = "batch_id" THEN batch_id ELSE rows[i][c]]]

\* write_delta(mode="append")
AppendRows(tbls, loc, rows) ==
    (loc :> (TableRows(tbls, loc) \o rows)) @@ tbls

\* DeltaTableWriter given a path: only a csv or txt path is read and written
DeltaTableWriterPath(tbls, store, input_data, save_location, batch_id) ==
    IF Contains(input_data, "csv") \/ Contains(input_data, "txt")
    THEN AppendRows(tbls, save_location, Stamp(ReadObject(store, input_data).rows, batch_id))
    ELSE tbls

\* DeltaTableWriter given a DataFrame
DeltaTableWriter(tbls, input_data, save_location, batch_id) ==
    AppendRows(tbls, save_location, Stamp(input_data, batch_id))

\* DeltaTableWriter given a list of dicts: the frame with_columns returns is
\* dropped, and the rows are appended as they came.  An append whose columns
\* are not those of the table is refused by the table.
DeltaTableWriterDicts(tbls, input_data, save_location, batch_id) ==
    IF \E i \in DOMAIN input_data : \E r \in SeqToSet(TableRows(tbls, save_location)) :
          DOMAIN r # DOMAIN input_data[i]
    THEN tbls
    ELSE AppendRows(tbls, save_location, input_data)

\* one turn of the loop over new_files; a set has no order, any file is next
B2Land(d) ==
    /\ layer = "B2"
    /\ d \in DOMAIN task
    /\ task[d].st = "running"
    /\ task[d].pc = "land"
    /\ \E i \in DOMAIN task[d].todo, fault \in {"none", "copy"} :
        LET m == BronzeOf(d)
            new_file == task[d].todo[i]
            rest == SelectSeq(task[d].todo, LAMBDA f : f # new_file)
            batch_id == clock + 1
            landing_path == path_to_s3(m.landing_location, ctl.env)
        IN /\ Inject(fault)
           /\ clock' = batch_id
           /\ IF fault = "none"
              THEN /\ tables' = DeltaTableWriterPath(tables, s3, new_file, landing_path.s3_location, batch_id)
                   /\ logRaw' = Append(logRaw, RawLog(m, batch_id, new_file, "SUCCEEDED"))
                   /\ task' = [task EXCEPT ![d] = IF Len(rest) = 0 THEN Done(@) ELSE [@ EXCEPT !.todo = rest]]
              ELSE /\ tables' = tables
                   /\ logRaw' = Append(logRaw, RawLog(m, NoBatch, new_file, "FAILED"))
                   /\ task' = [task EXCEPT ![d] = Fail(@, "ClientError")]
    /\ UNCHANGED <<ctl, day, remote, s3, logAcq, logStd, logDqm, logTrn, layer, hist, run>>

\* the with-block of B1 ends: a failed future is re-raised, else B2 is submitted
B1Join ==
    /\ layer = "B1"
    /\ PoolDrained(task)
    /\ IF FirstError(PoolOrder("B1"), task) # ""
       THEN /\ hist' = Append(hist, Returned(run, "B1", FirstError(PoolOrder("B1"), task), task))
            /\ layer' = "idle"
            /\ task' = <<>>
            /\ run' = NoRun
       ELSE IF PoolSize("B2") = 0
       THEN /\ hist' = Append(hist, Returned(run, "B1", "ValueError", task))
            /\ layer' = "idle"
            /\ task' = <<>>
            /\ run' = NoRun
       ELSE /\ layer' = "B2"
            /\ task' = Submit("B2")
            /\ run' = [run EXCEPT !.b1 = task]
            /\ UNCHANGED hist
    /\ UNCHANGED <<ctl, day, clock, remote, s3, tables, logAcq, logRaw, logStd, logDqm, logTrn, faults>>

\* the with-block of the last pool of a layer ends
LayerJoin ==
    /\ layer \in {"B2", "silver", "gold"}
    /\ PoolDrained(task)
    /\ hist' = Append(hist, Returned(run, layer, FirstError(PoolOrder(layer), task), task))
    /\ layer' = "idle"
    /\ task' = <<>>
    /\ run' = NoRun
    /\ UNCHANGED <<ctl, day, clock, remote, s3, tables, logAcq, logRaw, logStd, logDqm, logTrn, faults>>

(***************************************************************************)
(* The unprocessed-file selectors of OrchestrationProcess.                 *)
(***************************************************************************)

\* ORDER BY batch_id ASC over rows of distinct batch ids
RECURSIVE OrderByBatch(_)
OrderByBatch(rows) ==
    IF Len(rows) = 0 THEN <<>>
    ELSE LET lo == CHOOSE i \in DOMAIN rows : \A j \in DOMAIN rows : rows[i].batch_id <= rows[j].batch_id
         IN <<rows[lo]>> \o OrderByBatch([k \in 1..(Len(rows) - 1) |-> IF k < lo THEN rows[k] ELSE rows[k + 1]])

Succeeded(log) == {r.source_file : r \in {x \in SeqToSet(log) : x.status = "SUCCEEDED"}}

get_data_standardisation_unprocessed_files(raw, std, process_id, dataset_id) ==
    OrderByBatch(SelectSeq(raw, LAMBDA r :
        /\ r.source_file \notin Succeeded(std)
        /\ r.process_id = process_id
        /\ r.dataset_id = dataset_id
        /\ r.file_status = "SUCCEEDED"))

get_dqm_unprocessed_files(std, dqm, process_id, dataset_id) ==
    OrderByBatch(SelectSeq(std, LAMBDA r :
        /\ r.source_file \notin Succeeded(dqm)
        /\ r.process_id = process_id
        /\ r.dataset_id = dataset_id
        /\ r.status = "SUCCEEDED"))

\* the selector of the gold stage reading log_raw_process instead of log_dqm
SelectorOverRaw(dqm, trn, process_id, dataset_id) ==
    SelectSeq(logRaw, LAMBDA r :
        /\ r.source_file \notin Succeeded(trn)
        /\ r.process_id = process_id
        /\ r.dataset_id = dataset_id)

\* no status filter on log_dqm and no ORDER BY: one result per log_dqm row
get_unprocessed_transformation_files(dqm, trn, process_id, dataset_id) ==
    SelectSeq(dqm, LAMBDA r :
        /\ r.source_file \notin Succeeded(trn)
        /\ r.process_id = process_id
        /\ r.dataset_id = dataset_id)

\* get_dqm_detail(process_id, dataset_id)
get_dqm_detail(process_id, dataset_id) ==
    SelectSeq(ctl.dqm, LAMBDA q : q.process_id = process_id /\ q.dataset_id = dataset_id)

\* get_data_standard_dtl(dataset_id)
get_data_standard_dtl(dataset_id) ==
    SelectSeq(ctl.std, LAMBDA q : q.dataset_id = dataset_id)

(***************************************************************************)
(* The silver layer: DataStandardization, then DataQualityCheck.           *)
(***************************************************************************)

CallSilver ==
    /\ layer = "idle"
    /\ Len(hist) < MaxCalls
    /\ StartPool("silver", "silver", <<>>)
    /\ UNCHANGED <<ctl, day, clock, remote, s3, tables, logAcq, logRaw, logStd, logDqm, logTrn, faults>>

\* DeltaTableRead(delta_path, batch_id).read(): a batch id of 0 is falsy
DeltaTableRead(tbls, delta_path, batch_id) ==
    IF batch_id # 0
    THEN SelectSeq(tbls[delta_path], LAMBDA r : r.batch_id = batch_id)
    ELSE tbls[delta_path]

\* df.rename(rename_mapping)
Rename(df, meta) ==
    LET new(c) == IF \E m \in SeqToSet(meta) : m.source_column_name = c
                  THEN (CHOOSE m \in SeqToSet(meta) : m.source_column_name = c).column_name
                  ELSE c
        old(c, row) == CHOOSE k \in DOMAIN row : new(k) = c
    IN [i \in DOMAIN df |-> [c \in {new(k) : k \in DOMAIN df[i]} |-> df[i][old(c, df[i])]]]

\* str.to_lowercase() over the letters the source holds
ToLower(v) ==
    CASE v = "A" -> "a" [] v = "B" -> "b" [] v = "C" -> "c" [] OTHER -> v

\* one standardization rule: the frame after it, or the error it raised; the
\* catalogs hold rules of type_conversion, trim and unknown names only
ApplyStd(df, rule) ==
    IF rule.function_name = "type_conversion"
    THEN [err |-> "", df |-> IF rule.type \in {"lower", "upper"}
                             THEN [i \in DOMAIN df |-> [df[i] EXCEPT ![rule.column_name] = ToLower(@)]]
                             ELSE df]
    ELSE IF rule.function_name = "trim"
    THEN [err |-> "", df |-> df]
    ELSE [err |-> "Unknown Data Standardization Function", df |-> df]

StdLog(m, file, status) ==
    [batch_id |-> file.batch_id, process_id |-> m.process_id, dataset_id |-> m.dataset_id,
     source_file |-> file.source_file, status |-> status]

\* the rule loop: a rule that raises is logged FAILED and the loop goes on
RECURSIVE StdRules(_, _, _, _, _)
StdRules(rules, df, log, m, file) ==
    IF Len(rules) = 0 THEN [df |-> df, log |-> log]
    ELSE LET r == ApplyStd(df, Head(rules))
         IN StdRules(Tail(rules), r.df,
                     IF r.err = "" THEN log ELSE Append(log, StdLog(m, file, "FAILED")), m, file)

SilverBegin(d) ==
    /\ layer = "silver"
    /\ d \in DOMAIN task
    /\ task[d].st = "running"
    /\ task[d].pc = "begin"
    /\ LET m == BronzeOf(d)
           unprocessed_files == get_data_standardisation_unprocessed_files(logRaw, logStd, m.process_id, m.dataset_id)
       IN task' = [task EXCEPT ![d] =
                     IF Len(unprocessed_files) = 0
                     THEN Fail(@, "No Unprocessed files found for SILVER Layer")
                     ELSE [@ EXCEPT !.pc = "std", !.todo = unprocessed_files]]
    /\ UNCHANGED <<ctl, day, clock, remote, s3, tables, logAcq, logRaw, logStd, logDqm, logTrn, layer, hist, run, faults>>

\* one turn of the loop of DataStandardization over unprocessed_files
StdFile(d) ==
    /\ layer = "silver"
    /\ d \in DOMAIN task
    /\ task[d].st = "running"
    /\ task[d].pc = "std"
    /\ \E fault \in {"none", "copy"} :
        LET m == BronzeOf(d)
            unprocessed_file == Head(task[d].todo)
            landing == path_to_s3(m.landing_location, ctl.env).s3_location
            standard == path_to_s3(m.data_standardisation_location, ctl.env).s3_location
        IN /\ Inject(fault)
           /\ IF fault # "none" \/ landing \notin DOMAIN tables
              THEN /\ task' = [task EXCEPT ![d] = Fail(@, "DeltaError")]
                   /\ UNCHANGED <<tables, logStd>>
              ELSE LET df == Rename(DeltaTableRead(tables, landing, unprocessed_file.batch_id), ColumnMeta)
                       out == StdRules(get_data_standard_dtl(m.dataset_id), df, logStd, m, unprocessed_file)
                   IN /\ tables' = DeltaTableWriter(tables, out.df, standard, unprocessed_file.batch_id)
                      /\ logStd' = Append(out.log, StdLog(m, unprocessed_file, "SUCCEEDED"))
                      /\ task' = [task EXCEPT ![d] =
                                    IF Len(task[d].todo) = 1
                                    THEN [@ EXCEPT !.pc = "dq", !.todo = <<>>, !.first = "ok"]
                                    ELSE [@ EXCEPT !.todo = Tail(@)]]
    /\ UNCHANGED <<ctl, day, clock, remote, s3, logAcq, logRaw, logDqm, logTrn, layer, hist, run>>

\* the same turn where the insert of the log_standardization row can fail
\* too ("log"): the snapshot was written, the row is not inserted
StdFileLogged(d) ==
    /\ layer = "silver"
    /\ d \in DOMAIN task
    /\ task[d].st = "running"
    /\ task[d].pc = "std"
    /\ \E fault \in {"none", "copy", "log"} :
        LET m == BronzeOf(d)
            unprocessed_file == Head(task[d].todo)
            landing == path_to_s3(m.landing_location, ctl.env).s3_location
            standard == path_to_s3(m.data_standardisation_location, ctl.env).s3_location
        IN /\ Inject(fault)
           /\ IF fault = "copy" \/ landing \notin DOMAIN tables
              THEN /\ task' = [task EXCEPT ![d] = Fail(@, "DeltaError")]
                   /\ UNCHANGED <<tables, logStd>>
              ELSE LET df == Rename(DeltaTableRead(tables, landing, unprocessed_file.batch_id), ColumnMeta)
                       out == StdRules(get_data_standard_dtl(m.dataset_id), df, logStd, m, unprocessed_file)
                   IN /\ tables' = DeltaTableWriter(tables, out.df, standard, unprocessed_file.batch_id)
                      /\ IF fault = "log"
                         THEN /\ logStd' = out.log
                              /\ task' = [task EXCEPT ![d] = Fail(@, "OperationalError")]
                         ELSE /\ logStd' = Append(out.log, StdLog(m, unprocessed_file, "SUCCEEDED"))
                              /\ task' = [task EXCEPT ![d] =
                                            IF Len(task[d].todo) = 1
                                            THEN [@ EXCEPT !.pc = "dq", !.todo = <<>>, !.first = "ok"]
                                            ELSE [@ EXCEPT !.todo = Tail(@)]]
    /\ UNCHANGED <<ctl, day, clock, remote, s3, logAcq, logRaw, logDqm, logTrn, layer, hist, run>>

\* a log_dqm row of a rule: process_id is filled from the dataset id
RuleLog(m, file, q, errors, status) ==
    [process_id |-> m.dataset_id, dataset_id |-> m.dataset_id, batch_id |-> file.batch_id,
     source_file |-> file.source_file, qc_type |-> q.qc_type, criticality |-> q.criticality,
     error_count |-> errors, status |-> status]

\* a summary row that counts the rows of the batch as errors
SummaryLogCounted(m, file) ==
    [process_id |-> m.process_id, dataset_id |-> m.dataset_id, batch_id |-> file.batch_id,
     source_file |-> file.source_file, qc_type |-> Null, criticality |-> Null,
     error_count |-> 1, status |-> "SUCCEEDED"]

\* the summary row written when no rule is configured
SummaryLog(m, file) ==
    [process_id |-> m.process_id, dataset_id |-> m.dataset_id, batch_id |-> file.batch_id,
     source_file |-> file.source_file, qc_type |-> Null, criticality |-> Null,
     error_count |-> 0, status |-> "SUCCEEDED"]

(***************************************************************************)
(* failure_percentage = (failure_count / total_count) * 100 is computed in *)
(* binary64: the quotient is rounded to 53 significant bits, and so is its *)
(* product with 100.  A float here is [m, e]: 53 bits, the first of weight *)
(* 2^e.  Bits are 0 or 1, most significant first.                          *)
(***************************************************************************)

Zeros(n) == [i \in 1..n |-> 0]

\* the remainder of the long division of r by n after i bits, 0 <= r < n
RECURSIVE Remainder(_, _, _)
Remainder(r, n, i) == IF i = 0 THEN r ELSE (2 * Remainder(r, n, i - 1)) % n

\* the next `want` bits of the binary expansion of r/n
Expand(r, n, want) ==
    [i \in 1..want |-> IF 2 * Remainder(r, n, i - 1) >= n THEN 1 ELSE 0]

\* zeros after the binary point of r/n before its first one, 0 < r < n
RECURSIVE LeadingZeros(_, _)
LeadingZeros(r, n) == IF 2 * r >= n THEN 0 ELSE 1 + LeadingZeros(2 * r, n)

RECURSIVE Pow2(_)
Pow2(z) == IF z = 0 THEN 1 ELSE 2 * Pow2(z - 1)

\* bits + 1, with the carry out of the first bit
Increment(bits) ==
    IF \A i \in DOMAIN bits : bits[i] = 1
    THEN [bits |-> Zeros(Len(bits)), carry |-> 1]
    ELSE LET j == CHOOSE i \in DOMAIN bits :
                    bits[i] = 0 /\ \A k \in (i + 1)..Len(bits) : bits[k] = 1
         IN [bits |-> [i \in DOMAIN bits |-> IF i < j THEN bits[i] ELSE IF i = j THEN 1 ELSE 0],
             carry |-> 0]

\* round to nearest, ties to even: bits (at least 53, the first a one) of
\* weight 2^e, sticky telling that ones follow them
RoundNearestEven(bits, e, sticky) ==
    LET m == SubSeq(bits, 1, 53)
        guard == IF Len(bits) > 53 THEN bits[54] ELSE 0
        rest == sticky \/ \E i \in 55..Len(bits) : bits[i] = 1
        up == Increment(m)
    IN IF guard = 1 /\ (rest \/ m[53] = 1)
       THEN IF up.carry = 1 THEN [m |-> <<1>> \o Zeros(52), e |-> e + 1]
            ELSE [m |-> up.bits, e |-> e]
       ELSE [m |-> m, e |-> e]

\* k / n in binary64, 1 <= k <= n
Float64Div(k, n) ==
    IF k = n THEN [m |-> <<1>> \o Zeros(52), e |-> 0]
    ELSE LET z == LeadingZeros(k, n)
         IN RoundNearestEven(Expand(k * Pow2(z), n, 54), 0 - (z + 1),
                             Remainder(k * Pow2(z), n, 54) # 0)

\* the carry into bit i of a + b
RECURSIVE CarryIn(_, _, _)
CarryIn(a, b, i) ==
    IF i = Len(a) THEN 0 ELSE (a[i + 1] + b[i + 1] + CarryIn(a, b, i + 1)) \div 2

\* a + b over bit sequences of one length (the sum fits that length)
AddBits(a, b) == [i \in DOMAIN a |-> (a[i] + b[i] + CarryIn(a, b, i)) % 2]

\* the bits from the first one on
StripZeros(bits) ==
    IF \A i \in DOMAIN bits : bits[i] = 0 THEN <<>>
    ELSE LET f == CHOOSE i \in DOMAIN bits : bits[i] = 1 /\ \A k \in 1..(i - 1) : bits[k] = 0
         IN SubSeq(bits, f, Len(bits))

\* x * 100 in binary64: 100 = 64 + 32 + 4
Float64Mul100(x) ==
    LET shl(s) == Zeros(60 - 53 - s) \o x.m \o Zeros(s)
        prod == StripZeros(AddBits(AddBits(shl(6), shl(5)), shl(2)))
    IN RoundNearestEven(prod, x.e + Len(prod) - 53, FALSE)

\* the integer the first n bits spell
RECURSIVE BitsToInt(_, _)
BitsToInt(bits, n) ==
    IF n = 0 THEN 0 ELSE 2 * BitsToInt(bits, n - 1) + bits[n]

\* the float as its integer part and whether a fraction follows it
Floor(x) ==
    IF x.e < 0 THEN [int |-> 0, frac |-> TRUE]
    ELSE [int |-> BitsToInt(x.m, x.e + 1),
          frac |-> \E i \in (x.e + 2)..53 : x.m[i] = 1]

failure_percentage(failure_count, total_count) ==
    Floor(Float64Mul100(Float64Div(failure_count, total_count)))

\* failure_percentage >= criticality_threshold_pct, the threshold an int
PctGe(pct, threshold) == pct.int >= threshold

\* failure_percentage <= criticality_threshold_pct
PctLe(pct, threshold) == pct.int < threshold \/ (pct.int = threshold /\ ~pct.frac)

\* DataQualityCheck.null_check: the passing frame, the log rows, the error
null_check(df, m, file, q) ==
    LET total_count == Len(df)
        null_check_dqm_ == SelectSeq(df, LAMBDA r : r[q.column_name] # Null)
        failure_count == total_count - Len(null_check_dqm_)
    IN IF failure_count # 0 THEN
         IF q.criticality = "C" /\ PctGe(failure_percentage(failure_count, total_count), q.criticality_threshold_pct)
         THEN [df |-> df, log |-> <<RuleLog(m, file, q, failure_count, "FAILED")>>,
               err |-> "DQM Checks failed"]
         ELSE IF q.criticality = "C" /\ PctLe(failure_percentage(failure_count, total_count), q.criticality_threshold_pct)
         THEN [df |-> null_check_dqm_, log |-> <<RuleLog(m, file, q, failure_count, "SUCCEEDED")>>, err |-> ""]
         ELSE IF q.criticality = "NC"
         THEN [df |-> null_check_dqm_, log |-> <<RuleLog(m, file, q, failure_count, "SUCCEEDED")>>, err |-> ""]
         \* no branch returns: the caller goes on with None
         ELSE [df |-> <<>>, log |-> <<>>, err |-> "TypeError"]
       \* error_pct=failure_percentage reads a name this branch never bound
       ELSE [df |-> df, log |-> <<>>, err |-> "UnboundLocalError"]

\* the branches with the frame handed on as it came in
dqm_outcome_unfiltered(df, passed, m, file, q) ==
    LET failure_count == Len(df) - Len(passed)
    IN IF failure_count # 0 /\ q.criticality = "C"
          /\ PctGe(failure_percentage(failure_count, Len(df)), q.criticality_threshold_pct)
       THEN [df |-> df, log |-> <<RuleLog(m, file, q, failure_count, "FAILED")>>,
             err |-> "DQM Checks failed"]
       ELSE [df |-> df, log |-> <<RuleLog(m, file, q, failure_count, "SUCCEEDED")>>, err |-> ""]

\* what unique_dqm, integer_dqm_check, decimal_dqm_check and
\* domain_dqm_check do once they hold the passing frame: the branches of
\* null_check, with error_pct=0 where no row failed
dqm_outcome(df, passed, m, file, q) ==
    LET total_count == Len(df)
        failure_count == total_count - Len(passed)
    IN IF failure_count # 0 THEN
         IF q.criticality = "C" /\ PctGe(failure_percentage(failure_count, total_count), q.criticality_threshold_pct)
         THEN [df |-> df, log |-> <<RuleLog(m, file, q, failure_count, "FAILED")>>,
               err |-> "DQM Checks failed"]
         ELSE IF q.criticality = "C" /\ PctLe(failure_percentage(failure_count, total_count), q.criticality_threshold_pct)
         THEN [df |-> passed, log |-> <<RuleLog(m, file, q, failure_count, "SUCCEEDED")>>, err |-> ""]
         ELSE IF q.criticality = "NC"
         THEN [df |-> passed, log |-> <<RuleLog(m, file, q, failure_count, "SUCCEEDED")>>, err |-> ""]
         ELSE [df |-> <<>>, log |-> <<>>, err |-> "TypeError"]
       ELSE [df |-> passed, log |-> <<RuleLog(m, file, q, failure_count, "SUCCEEDED")>>, err |-> ""]

\* the rows of df at the indices of keep, in order
AtIndices(df, keep) ==
    [k \in 1..Cardinality(keep) |->
        df[CHOOSE i \in keep : Cardinality({j \in keep : j <= i}) = k]]

\* df.unique(subset=columns): one row of each key; the frames of the model
\* hold no two rows of one key that differ elsewhere, so the first stands
unique_dqm(df, m, file, q) ==
    LET cols == SeqToSet(Split(q.column_name, ","))
        same(i, j) == \A c \in cols : df[i][c] = df[j][c]
    IN dqm_outcome(df, AtIndices(df, {i \in DOMAIN df : \A j \in 1..(i - 1) : ~same(i, j)}),
                   m, file, q)

\* str.contains(r"(^-?\d+$)"): a null does not match
IsInteger(v) ==
    /\ v # Null
    /\ LET d == IF StartsWith(v, "-") THEN Tail(v) ELSE v
       IN Len(d) > 0 /\ LeadingDigits(d, Len(d))

integer_dqm_check(df, m, file, q) ==
    dqm_outcome(df, SelectSeq(df, LAMBDA r : IsInteger(r[q.column_name])), m, file, q)

\* decimal_dqm_check filters with the regular expression of the integer check
decimal_dqm_check(df, m, file, q) ==
    dqm_outcome(df, SelectSeq(df, LAMBDA r : IsInteger(r[q.column_name])), m, file, q)

\* is_in(qc_param.split(",")): a null is in no list
domain_dqm_check(df, m, file, q) ==
    dqm_outcome(df, SelectSeq(df, LAMBDA r :
                    r[q.column_name] # Null /\ r[q.column_name] \in SeqToSet(Split(q.qc_param, ","))),
                m, file, q)

\* the rule kinds the catalogs hold; they hold no length, date or custom rule
RuleKinds == {"null", "unique", "integer", "decimal", "domain"}

rule_check(df, m, file, q) ==
    CASE q.qc_type = "null" -> null_check(df, m, file, q)
      [] q.qc_type = "unique" -> unique_dqm(df, m, file, q)
      [] q.qc_type = "integer" -> integer_dqm_check(df, m, file, q)
      [] q.qc_type = "decimal" -> decimal_dqm_check(df, m, file, q)
      [] q.qc_type = "domain" -> domain_dqm_check(df, m, file, q)

\* the rule loop of DataQualityCheck
RECURSIVE DqRules(_, _, _, _, _)
DqRules(rules, df, log, m, file) ==
    IF Len(rules) = 0 THEN [df |-> df, log |-> log, err |-> ""]
    ELSE IF Head(rules).qc_type \in RuleKinds THEN
        LET r == rule_check(df, m, file, Head(rules))
        IN IF r.err # "" THEN [df |-> df, log |-> log \o r.log, err |-> r.err]
           ELSE DqRules(Tail(rules), r.df, log \o r.log, m, file)
    ELSE DqRules(Tail(rules), df, log, m, file)

DqBegin(d) ==
    /\ layer = "silver"
    /\ d \in DOMAIN task
    /\ task[d].st = "running"
    /\ task[d].pc = "dq"
    /\ LET m == BronzeOf(d)
           unprocessed_files == get_dqm_unprocessed_files(logStd, logDqm, m.process_id, m.dataset_id)
       IN task' = [task EXCEPT ![d] =
                     IF Len(unprocessed_files) = 0
                     THEN Fail(@, "No unprocess files found for Data Quality Checks")
                     ELSE [@ EXCEPT !.pc = "dqfile", !.todo = unprocessed_files]]
    /\ UNCHANGED <<ctl, day, clock, remote, s3, tables, logAcq, logRaw, logStd, logDqm, logTrn, layer, hist, run, faults>>

\* one turn of the loop of DataQualityCheck over unprocessed_files
DqFile(d) ==
    /\ layer = "silver"
    /\ d \in DOMAIN task
    /\ task[d].st = "running"
    /\ task[d].pc = "dqfile"
    /\ LET m == BronzeOf(d)
           unprocessed_file == Head(task[d].todo)
           dqm_details == get_dqm_detail(m.process_id, m.dataset_id)
           standard == path_to_s3(m.data_standardisation_location, ctl.env).s3_location
           staging == path_to_s3(m.staging_location, ctl.env).s3_location
           original_df == DeltaTableRead(tables, standard, unprocessed_file.batch_id)
           out == IF Len(dqm_details) # 0
                  THEN DqRules(dqm_details, original_df, <<>>, m, unprocessed_file)
                  ELSE [df |-> original_df, log |-> <<SummaryLog(m, unprocessed_file)>>, err |-> ""]
       IN /\ logDqm' = logDqm \o out.log
          /\ IF out.err # ""
             THEN /\ task' = [task EXCEPT ![d] = Fail(@, out.err)]
                  /\ tables' = tables
             ELSE /\ tables' = DeltaTableWriter(tables, out.df, staging, unprocessed_file.batch_id)
                  /\ task' = [task EXCEPT ![d] =
                                IF Len(task[d].todo) = 1 THEN Done(@) ELSE [@ EXCEPT !.todo = Tail(@)]]
    /\ UNCHANGED <<ctl, day, clock, remote, s3, logAcq, logRaw, logStd, logTrn, layer, hist, run, faults>>

(***************************************************************************)
(* The gold layer: Transformation (direct), the SCD-2 publish, then the    *)
(* gold quality gate.                                                      *)
(***************************************************************************)

GoldOf(g) == CHOOSE m \in SeqToSet(ctl.gold) : m.dataset_id = g

\* get_transformation_dependency_master(process_id, dataset_id)
get_transformation_dependency_master(process_id, dataset_id) ==
    SelectSeq(ctl.deps, LAMBDA x : x.process_id = process_id /\ x.dataset_id = dataset_id)

\* per gold dataset, the files its selector holds unprocessed
GoldUnprocessed ==
    [g \in SeqToSet(PoolOrder("gold")) |->
        {r.source_file : r \in SeqToSet(get_unprocessed_transformation_files(logDqm, logTrn,
            GoldOf(g).process_id,
            get_transformation_dependency_master(GoldOf(g).process_id, g)[1].depedent_dataset_id))}]

CallGold ==
    /\ layer = "idle"
    /\ Len(hist) < MaxCalls
    /\ StartPool("gold", "gold", GoldUnprocessed)
    /\ UNCHANGED <<ctl, day, clock, remote, s3, tables, logAcq, logRaw, logStd, logDqm, logTrn, faults>>

\* the sentinel date(9999, 12, 31) of an active row
Sentinel == "9999-12-31"

\* plh.concat_str(*columns).chash.sha256(): null when a column is null
RECURSIVE concat_str(_, _)
concat_str(row, columns) ==
    IF Len(columns) = 0 THEN ""
    ELSE IF row[Head(columns)] = Null \/ concat_str(row, Tail(columns)) = Null THEN Null
    ELSE row[Head(columns)] \o concat_str(row, Tail(columns))

sha256(v) == IF v = Null THEN Null ELSE "sha256:" \o v

\* drop batch_id, select the declared columns, add the SCD-2 columns
Envelope(staging_df, columns, batch_id, today) ==
    [i \in DOMAIN staging_df |->
        [c \in SeqToSet(columns) |-> staging_df[i][c]]
        @@ [data_date |-> today, batch_id |-> batch_id, eff_strt_dt |-> today,
            sys_del_flg |-> "N", eff_end_dt |-> Sentinel,
            sys_checksum |-> sha256(concat_str(staging_df[i], columns))]]

\* the merge predicate: target.eff_end_dt == '9999-12-31' AND target.k = staging.k
\* (an SQL equality over a null is not true)
Matches(t, st, keys) ==
    /\ t.eff_end_dt = Sentinel
    /\ \A k \in SeqToSet(keys) : t[k] # Null /\ st[k] # Null /\ t[k] = st[k]

\* the clause predicate target.sys_checksum != staging.sys_checksum
Changed(t, st) ==
    t.sys_checksum # Null /\ st.sys_checksum # Null /\ t.sys_checksum # st.sys_checksum

NotMatched(target, staging_df, keys) ==
    SelectSeq(staging_df, LAMBDA st : \A t \in SeqToSet(target) : ~Matches(t, st, keys))

\* the first merge: close every matched row whose checksum differs, insert
\* every source row that matched nothing
MergeClose(target, staging_df, keys) ==
    [i \in DOMAIN target |->
        IF \E st \in SeqToSet(staging_df) : Matches(target[i], st, keys) /\ Changed(target[i], st)
        THEN [target[i] EXCEPT
                !.eff_end_dt = (CHOOSE st \in SeqToSet(staging_df) :
                                  Matches(target[i], st, keys) /\ Changed(target[i], st)).eff_strt_dt,
                !.sys_del_flg = "Y"]
        ELSE target[i]]
    \o NotMatched(target, staging_df, keys)

\* the second merge: insert every source row that matches nothing now
MergeInsert(target, staging_df, keys) ==
    target \o NotMatched(target, staging_df, keys)

DeltaTableWriterScdType2(target, staging_df, keys) ==
    MergeInsert(MergeClose(target, staging_df, keys), staging_df, keys)

\* two rows of the source would update one row of the target: whether the
\* merge raises then is left open by the table library
MultipleMatch(target, staging_df, keys) ==
    \E t \in SeqToSet(target) : \E i, j \in DOMAIN staging_df :
        /\ i # j
        /\ Matches(t, staging_df[i], keys) /\ Changed(t, staging_df[i])
        /\ Matches(t, staging_df[j], keys) /\ Changed(t, staging_df[j])

\* the publish step of a transformation: an initial append when listing the
\* target prefix finds nothing, the SCD-2 merge otherwise
Publish(tbls, store, frame, target_path, keys, batch_id) ==
    IF s3_list_files(store, tbls, target_path.bucket, target_path.key) # {}
    THEN (target_path.s3_location :>
            DeltaTableWriterScdType2(TableRows(tbls, target_path.s3_location), frame, keys)) @@ tbls
    ELSE DeltaTableWriter(tbls, frame, target_path.s3_location, batch_id)

TrnLog(m, file, status) ==
    [batch_id |-> file.batch_id, process_id |-> m.process_id, dataset_id |-> m.dataset_id,
     source_file |-> file.source_file, status |-> status]

RemoveAt(q, i) == [k \in 1..(Len(q) - 1) |-> IF k < i THEN q[k] ELSE q[k + 1]]

\* DeltaTableRead(latest=True): the rows of the greatest batch_id
DeltaTableReadLatest(tbls, delta_path) ==
    LET rows == tbls[delta_path]
    IN SelectSeq(rows, LAMBDA r : \A q \in SeqToSet(rows) : q.batch_id <= r.batch_id)

\* df.drop(column)
DropColumn(df, c) == [i \in DOMAIN df |-> [k \in (DOMAIN df[i]) \ {c} |-> df[i][k]]]

\* the staging table of the dataset a dependency row names
SourceLocation(dep) ==
    path_to_s3(BronzeOf(dep.depedent_dataset_id).staging_location, ctl.env).s3_location

\* the row a join makes of a left and a right row: the right key columns are
\* dropped, a right column whose name the left row has takes the suffix _right
JoinedRow(l, r, right_on) ==
    LET kept == (DOMAIN r) \ SeqToSet(right_on)
        name(c) == IF c \in DOMAIN l THEN c \o "_right" ELSE c
    IN [c \in (DOMAIN l) \cup {name(k) : k \in kept} |->
          IF c \in DOMAIN l THEN l[c]
          ELSE r[CHOOSE k \in kept : name(k) = c]]

\* the join keys of the rows are equal; a null key matches nothing
KeysEqual(l, r, left_on, right_on) ==
    \A k \in DOMAIN left_on : l[left_on[k]] # Null /\ l[left_on[k]] = r[right_on[k]]

\* the matches of one left row, in the order of the right frame; a left join
\* keeps a left row without a match, its right columns null
RECURSIVE JoinRows(_, _, _, _, _, _)
JoinRows(df, df_right, left_on, right_on, how, i) ==
    IF i > Len(df) THEN <<>>
    ELSE LET hits == SelectSeq(df_right, LAMBDA r : KeysEqual(df[i], r, left_on, right_on))
             rows == [k \in DOMAIN hits |-> JoinedRow(df[i], hits[k], right_on)]
             lone == IF how = "left" /\ Len(df_right) > 0
                     THEN <<JoinedRow(df[i], [c \in DOMAIN df_right[1] |-> Null], right_on)>>
                     ELSE <<>>
         IN (IF Len(hits) = 0 THEN lone ELSE rows)
            \o JoinRows(df, df_right, left_on, right_on, how, i + 1)

\* the join loop without the count of the keys: the join pairs the keys as
\* far as the shorter list goes
RECURSIVE JoinAllUnchecked(_, _, _)
JoinAllUnchecked(base_df, deps, frames) ==
    IF Len(deps) = 0 THEN [df |-> base_df, err |-> ""]
    ELSE LET left_on == Split(Head(deps).left_table_columns, ",")
             right_on == Split(Head(deps).right_table_columns, ",")
             n == IF Len(left_on) < Len(right_on) THEN Len(left_on) ELSE Len(right_on)
         IN JoinAllUnchecked(JoinRows(base_df, Head(frames), SubSeq(left_on, 1, n), SubSeq(right_on, 1, n),
                                      ToLower(Head(deps).join_how), 1),
                             Tail(deps), Tail(frames))

\* the loop over source_details[1:]: a dependency row whose key lists differ
\* in length raises ValueError, else its frame is joined to the base frame
RECURSIVE JoinAll(_, _, _)
JoinAll(base_df, deps, frames) ==
    IF Len(deps) = 0 THEN [df |-> base_df, err |-> ""]
    ELSE LET left_on == Split(Head(deps).left_table_columns, ",")
             right_on == Split(Head(deps).right_table_columns, ",")
         IN IF Len(left_on) # Len(right_on)
            THEN [df |-> base_df, err |-> "ValueError"]
            ELSE JoinAll(JoinRows(base_df, Head(frames), left_on, right_on,
                                  ToLower(Head(deps).join_how), 1),
                         Tail(deps), Tail(frames))

\* base_df.with_columns of the SCD-2 columns: every joined column is kept
JoinEnvelope(df, columns, batch_id, today) ==
    [i \in DOMAIN df |->
        [data_date |-> today, batch_id |-> batch_id, eff_strt_dt |-> today,
         sys_del_flg |-> "N", eff_end_dt |-> Sentinel,
         sys_checksum |-> sha256(concat_str(df[i], columns))]
        @@ df[i]]

\* s.strip(c)
RECURSIVE LStrip(_, _)
LStrip(s, c) ==
    IF Len(s) > 0 /\ StartsWith(s, c) THEN LStrip(Drop(s, 1), c) ELSE s

Strip(s, c) == LStrip(RStrip(s, c), c)

\* dict.get(key): None for a key the dict does not hold
DictGet(d, key) == IF key \in DOMAIN d THEN d[key] ELSE Null

\* the dict union_transformation appends to source_details for a dependency
SourceDetail(dep) ==
    [source_table_location |-> BronzeOf(dep.depedent_dataset_id).staging_location,
     extra_value |-> dep.extra_values]

\* the (column_name, value) pairs of an extra_values string "c='v',d='w'"
ExtraValues(extra_values) ==
    LET items == Split(extra_values, ",")
    IN [i \in DOMAIN items |->
          [column_name |-> Split(items[i], "=")[1],
           value |-> Strip(Split(items[i], "=")[2], "'")]]

\* df.with_columns(new_values): the literal columns, set on every row
RECURSIVE WithColumns(_, _)
WithColumns(df, new_values) ==
    IF Len(new_values) = 0 THEN df
    ELSE WithColumns([i \in DOMAIN df |->
                        (Head(new_values).column_name :> Head(new_values).value) @@ df[i]],
                     Tail(new_values))

\* the frame union_transformation reads for one source detail
SourceFrame(source_detail) ==
    LET read == DeltaTableReadLatest(tables, path_to_s3(source_detail.source_table_location,
                                                        ctl.env).s3_location)
    IN IF DictGet(source_detail, "extra_values") # Null
       THEN WithColumns(read, ExtraValues(source_detail["extra_values"]))
       ELSE read

RECURSIVE Concat(_)
Concat(dfs) == IF Len(dfs) = 0 THEN <<>> ELSE Head(dfs) \o Concat(Tail(dfs))

\* polars.concat(source_dfs).select(columns): frames of unlike columns do not
\* concatenate, and a column none of them has cannot be selected
UnionAll(source_details, columns) ==
    LET source_dfs == [k \in DOMAIN source_details |-> SourceFrame(source_details[k])]
        rows == Concat(source_dfs)
    IN IF \E i, j \in DOMAIN rows : DOMAIN rows[i] # DOMAIN rows[j]
       THEN [df |-> <<>>, err |-> "SchemaError"]
       ELSE IF \E i \in DOMAIN rows : \E c \in SeqToSet(columns) : c \notin DOMAIN rows[i]
       THEN [df |-> <<>>, err |-> "ColumnNotFoundError"]
       ELSE [df |-> rows, err |-> ""]

\* Transformation.__init__ and the head of direct_transformation
\* the types Transformation serves; the catalogs hold no join, union or custom
\* dataset, and the model has the direct transformation only
TransformationTypes == {"direct", "join", "union", "custom"}

GoldBegin(g) ==
    /\ layer = "gold"
    /\ g \in DOMAIN task
    /\ task[g].st = "running"
    /\ task[g].pc = "begin"
    /\ LET m == GoldOf(g)
           deps == get_transformation_dependency_master(m.process_id, m.dataset_id)
           unprocessed == get_unprocessed_transformation_files(logDqm, logTrn, m.process_id,
                                                               deps[1].depedent_dataset_id)
       IN task' = [task EXCEPT ![g] =
                     IF ToLower(deps[1].transformation_type) \notin TransformationTypes
                     THEN Fail(@, "Unsupported Transformation")
                     ELSE IF Len(unprocessed) = 0
                     THEN Fail(@, "No unprocess files found")
                     ELSE IF ToLower(deps[1].transformation_type) = "join"
                     THEN IF \E k \in DOMAIN deps : SourceLocation(deps[k]) \notin DOMAIN tables
                          THEN Fail(@, "TableNotFoundError")
                          ELSE [@ EXCEPT !.pc = "join", !.todo = unprocessed]
                     ELSE IF ToLower(deps[1].transformation_type) = "union"
                     THEN [@ EXCEPT !.pc = "union", !.todo = unprocessed]
                     ELSE [@ EXCEPT !.pc = "xform", !.todo = unprocessed]]
    /\ UNCHANGED <<ctl, day, clock, remote, s3, tables, logAcq, logRaw, logStd, logDqm, logTrn, layer, hist, run, faults>>

\* one turn of the loop of direct_transformation; the selector states no
\* order, so any of the rows it returned is the next
GoldFile(g) ==
    /\ layer = "gold"
    /\ g \in DOMAIN task
    /\ task[g].st = "running"
    /\ task[g].pc = "xform"
    /\ \E i \in DOMAIN task[g].todo, fault \in {"none", "copy"}, strict \in BOOLEAN :
        LET m == GoldOf(g)
            dep == get_transformation_dependency_master(m.process_id, m.dataset_id)[1]
            unprocessed_file == task[g].todo[i]
            primary_keys == Split(dep.primary_keys, ",")
            staging == path_to_s3(BronzeOf(dep.depedent_dataset_id).staging_location, ctl.env).s3_location
            target == path_to_s3(m.transformation_location, ctl.env)
            staging_df == Envelope(DeltaTableRead(tables, staging, unprocessed_file.batch_id),
                                   GoldColumns, unprocessed_file.batch_id, Today)
        IN /\ Inject(fault)
           /\ IF \/ fault # "none"
                 \/ staging \notin DOMAIN tables
                 \/ (strict /\ target.s3_location \in DOMAIN tables
                            /\ MultipleMatch(TableRows(tables, target.s3_location), staging_df, primary_keys))
              THEN /\ logTrn' = Append(logTrn, TrnLog(m, unprocessed_file, "FAILED"))
                   /\ task' = [task EXCEPT ![g] = Fail(@, "DeltaError")]
                   /\ tables' = tables
              ELSE /\ tables' = Publish(tables, s3, staging_df, target, primary_keys, unprocessed_file.batch_id)
                   /\ logTrn' = Append(logTrn, TrnLog(m, unprocessed_file, "SUCCEEDED"))
                   /\ task' = [task EXCEPT ![g] =
                                 IF Len(task[g].todo) = 1
                                 THEN [@ EXCEPT !.pc = "tdq", !.todo = <<>>, !.first = "ok"]
                                 ELSE [@ EXCEPT !.todo = RemoveAt(@, i)]]
    /\ UNCHANGED <<ctl, day, clock, remote, s3, logAcq, logRaw, logStd, logDqm, layer, hist, run>>

\* one turn of the loop of join_transformation; the source frames were read
\* before the loop and the staged tables do not change while gold runs
JoinFile(g) ==
    /\ layer = "gold"
    /\ g \in DOMAIN task
    /\ task[g].st = "running"
    /\ task[g].pc = "join"
    /\ \E i \in DOMAIN task[g].todo, fault \in {"none", "copy"} :
        LET m == GoldOf(g)
            deps == get_transformation_dependency_master(m.process_id, m.dataset_id)
            unprocessed_file == task[g].todo[i]
            primary_keys == Split(deps[1].primary_keys, ",")
            target == path_to_s3(m.transformation_location, ctl.env)
            frames == [k \in DOMAIN deps |->
                         DropColumn(DeltaTableReadLatest(tables, SourceLocation(deps[k])), "batch_id")]
            joined == JoinAll(frames[1], Tail(deps), Tail(frames))
            final_df == JoinEnvelope(joined.df, GoldColumns, unprocessed_file.batch_id, Today)
        IN /\ Inject(fault)
           /\ IF fault # "none" \/ joined.err # ""
              THEN /\ logTrn' = Append(logTrn, TrnLog(m, unprocessed_file, "FAILED"))
                   /\ task' = [task EXCEPT ![g] =
                                 Fail(@, IF joined.err # "" THEN joined.err ELSE "DeltaError")]
                   /\ tables' = tables
              ELSE /\ tables' = Publish(tables, s3, final_df, target, primary_keys, unprocessed_file.batch_id)
                   /\ logTrn' = Append(logTrn, TrnLog(m, unprocessed_file, "SUCCEEDED"))
                   /\ task' = [task EXCEPT ![g] =
                                 IF Len(task[g].todo) = 1
                                 THEN [@ EXCEPT !.pc = "tdq", !.todo = <<>>, !.first = "ok"]
                                 ELSE [@ EXCEPT !.todo = RemoveAt(@, i)]]
    /\ UNCHANGED <<ctl, day, clock, remote, s3, logAcq, logRaw, logStd, logDqm, layer, hist, run>>

\* one turn of the loop of union_transformation: the staged tables of every
\* dependency are read inside the try of the turn
UnionFile(g) ==
    /\ layer = "gold"
    /\ g \in DOMAIN task
    /\ task[g].st = "running"
    /\ task[g].pc = "union"
    /\ \E i \in DOMAIN task[g].todo, fault \in {"none", "copy"} :
        LET m == GoldOf(g)
            deps == get_transformation_dependency_master(m.process_id, m.dataset_id)
            unprocessed_file == task[g].todo[i]
            primary_keys == Split(deps[1].primary_keys, ",")
            target == path_to_s3(m.transformation_location, ctl.env)
            source_details == [k \in DOMAIN deps |-> SourceDetail(deps[k])]
            missing == \E k \in DOMAIN deps : SourceLocation(deps[k]) \notin DOMAIN tables
            result == IF missing THEN [df |-> <<>>, err |-> "TableNotFoundError"]
                      ELSE UnionAll(source_details, ctl.columns)
            final_df == Envelope(result.df, ctl.columns, unprocessed_file.batch_id, Today)
        IN /\ Inject(fault)
           /\ IF fault # "none" \/ result.err # ""
              THEN /\ logTrn' = Append(logTrn, TrnLog(m, unprocessed_file, "FAILED"))
                   /\ task' = [task EXCEPT ![g] =
                                 Fail(@, IF result.err # "" THEN result.err ELSE "DeltaError")]
                   /\ tables' = tables
              ELSE /\ tables' = Publish(tables, s3, final_df, target, primary_keys, unprocessed_file.batch_id)
                   /\ logTrn' = Append(logTrn, TrnLog(m, unprocessed_file, "SUCCEEDED"))
                   /\ task' = [task EXCEPT ![g] =
                                 IF Len(task[g].todo) = 1
                                 THEN [@ EXCEPT !.pc = "tdq", !.todo = <<>>, !.first = "ok"]
                                 ELSE [@ EXCEPT !.todo = RemoveAt(@, i)]]
    /\ UNCHANGED <<ctl, day, clock, remote, s3, logAcq, logRaw, logStd, logDqm, layer, hist, run>>

\* get_transformation_dqm_unprocessed_files(process_id, dataset_id)
get_transformation_dqm_unprocessed_files(trn, dqm, process_id, dataset_id) ==
    OrderByBatch(SelectSeq(trn, LAMBDA r :
        /\ r.source_file \notin Succeeded(SelectSeq(dqm, LAMBDA x : x.dataset_id = dataset_id))
        /\ r.process_id = process_id
        /\ r.dataset_id = dataset_id
        /\ r.status = "SUCCEEDED"))

\* the gold quality gate over the batches the selector returns: the gold rows
\* of the batch go through the rules of the gold dataset into its staging
\* table, with a summary row when it has no rule
RECURSIVE TransformationDqFiles(_, _, _, _)
TransformationDqFiles(files, m, tbls, log) ==
    IF Len(files) = 0 THEN [tables |-> tbls, log |-> log, err |-> ""]
    ELSE LET file == Head(files)
             dqm_details == get_dqm_detail(m.process_id, m.dataset_id)
             gold == path_to_s3(m.transformation_location, ctl.env).s3_location
             staging == path_to_s3(m.staging_location, ctl.env).s3_location
             original_df == DeltaTableRead(tbls, gold, file.batch_id)
             out == IF Len(dqm_details) # 0
                    THEN DqRules(dqm_details, original_df, <<>>, m, file)
                    ELSE [df |-> original_df, log |-> <<SummaryLog(m, file)>>, err |-> ""]
         IN IF out.err # "" THEN [tables |-> tbls, log |-> log \o out.log, err |-> out.err]
            ELSE TransformationDqFiles(Tail(files), m,
                    DeltaTableWriter(tbls, out.df, staging, file.batch_id), log \o out.log)

TransformationDataQualityCheck(g) ==
    /\ layer = "gold"
    /\ g \in DOMAIN task
    /\ task[g].st = "running"
    /\ task[g].pc = "tdq"
    /\ LET m == GoldOf(g)
           unprocessed_files == get_transformation_dqm_unprocessed_files(logTrn, logDqm, m.process_id, m.dataset_id)
           out == TransformationDqFiles(unprocessed_files, m, tables, logDqm)
       IN IF Len(unprocessed_files) = 0
          THEN /\ task' = [task EXCEPT ![g] = Fail(@, "No unprocess files found for Data Quality Checks")]
               /\ UNCHANGED <<tables, logDqm>>
          ELSE /\ tables' = out.tables
               /\ logDqm' = out.log
               /\ task' = [task EXCEPT ![g] = IF out.err = "" THEN Done(@) ELSE Fail(@, out.err)]
    /\ UNCHANGED <<ctl, day, clock, remote, s3, logAcq, logRaw, logStd, logTrn, layer, hist, run, faults>>

(***************************************************************************)
(* The world moves between calls.                                          *)
(***************************************************************************)

SourceArrives ==
    /\ layer = "idle"
    /\ \E n \in SeqToSet(SrcNames) \ remote : remote' = remote \cup {n}
    /\ UNCHANGED <<ctl, day, clock, s3, tables, logAcq, logRaw, logStd, logDqm, logTrn, layer, task, hist, run, faults>>

DayAdvance ==
    /\ layer = "idle"
    /\ day < Len(Days)
    /\ day' = day + 1
    /\ UNCHANGED <<ctl, clock, remote, s3, tables, logAcq, logRaw, logStd, logDqm, logTrn, layer, task, hist, run, faults>>

InitWith(catalogs) ==
    /\ ctl \in catalogs
    /\ day = 1
    /\ clock = 0
    /\ remote \in {{}, {"s_20250101.csv"}}
    /\ s3 = {}
    /\ tables = <<>>
    /\ logAcq = <<>>
    /\ logRaw = <<>>
    /\ logStd = <<>>
    /\ logDqm = <<>>
    /\ logTrn = <<>>
    /\ layer = "idle"
    /\ task = <<>>
    /\ hist = <<>>
    /\ run = NoRun
    /\ faults = 0

InitBronze == InitWith(BronzeCatalogs)

BronzeIds == {1, 2}

NextBronze ==
    \/ CallBronze
    \/ \E d \in BronzeIds : TaskStart(d)
    \/ \E d \in BronzeIds : B1Run(d)
    \/ \E d \in BronzeIds : B2Begin(d)
    \/ \E d \in BronzeIds : B2Land(d)
    \/ B1Join
    \/ LayerJoin
    \/ SourceArrives
    \/ DayAdvance

SpecBronze == InitBronze /\ [][NextBronze]_vars

\* the catalogs the whole pipeline is checked over
PipelineCatalogs ==
    {Catalog("prod", 2, "SFTP", "bkt/in/", FALSE, Gold3, <<>>),
     Catalog("prod", 2, "SFTP", "bkt/in/", FALSE, Gold34, <<>>),
     Catalog("prod", 1, "SFTP", "bkt/in/", TRUE, Gold3, <<>>),
     Catalog("prod", 2, "SFTP", "bkt/in/", FALSE, Gold3, <<DqmRule("C", 50)>>),
     Catalog("prod", 2, "SFTP", "bkt/in/", FALSE, Gold3, <<DqmRule("NC", 0)>>),
     Catalog("dev", 2, "SFTP", "bkt/in/", FALSE, Gold3, <<>>)}

DatasetIds == {1, 2, 3, 4}

Init == InitWith(PipelineCatalogs)

Next ==
    \/ CallBronze
    \/ CallSilver
    \/ CallGold
    \/ \E d \in DatasetIds : TaskStart(d)
    \/ \E d \in DatasetIds : B1Run(d)
    \/ \E d \in DatasetIds : B2Begin(d)
    \/ \E d \in DatasetIds : B2Land(d)
    \/ \E d \in DatasetIds : SilverBegin(d)
    \/ \E d \in DatasetIds : StdFile(d)
    \/ \E d \in DatasetIds : DqBegin(d)
    \/ \E d \in DatasetIds : DqFile(d)
    \/ \E d \in DatasetIds : GoldBegin(d)
    \/ \E d \in DatasetIds : GoldFile(d)
    \/ \E d \in DatasetIds : TransformationDataQualityCheck(d)
    \/ B1Join
    \/ LayerJoin
    \/ SourceArrives
    \/ DayAdvance

\* the calls of one day: the pipeline with the calendar standing still
NextDay ==
    \/ CallBronze
    \/ CallSilver
    \/ CallGold
    \/ \E d \in DatasetIds : TaskStart(d)
    \/ \E d \in DatasetIds : B1Run(d)
    \/ \E d \in DatasetIds : B2Begin(d)
    \/ \E d \in DatasetIds : B2Land(d)
    \/ \E d \in DatasetIds : SilverBegin(d)
    \/ \E d \in DatasetIds : StdFile(d)
    \/ \E d \in DatasetIds : DqBegin(d)
    \/ \E d \in DatasetIds : DqFile(d)
    \/ \E d \in DatasetIds : GoldBegin(d)
    \/ \E d \in DatasetIds : GoldFile(d)
    \/ \E d \in DatasetIds : TransformationDataQualityCheck(d)
    \/ B1Join
    \/ LayerJoin
    \/ SourceArrives

\* the pipeline over the calls of one day; SpecRetry runs it across days
Spec == Init /\ [][NextDay]_vars

(***************************************************************************)
(* The pipeline over catalogs that configure standardization rules, rules  *)
(* of the other kinds, a platform no extractor serves and a transformation *)
(* type no transformation serves.                                          *)
(***************************************************************************)

RulesBase(dqm) == Catalog("prod", 2, "SFTP", "bkt/in/", FALSE, Gold3, dqm)

RulesCatalogs ==
    {[RulesBase(<<>>) EXCEPT !.std = <<StdRule("mask", Null)>>],
     RulesBase(<<DqmRuleOf(1, "domain", "val", "A,B", "C", 50)>>),
     RulesBase(<<DqmRuleOf(1, "domain", "val", "A,B", "C", 60)>>),
     RulesBase(<<DqmRuleOf(1, "domain", "val", "A,B", "NC", Null),
                 DqmRuleOf(2, "unique", "id", Null, "C", 50)>>),
     RulesBase(<<DqmRuleOf(1, "integer", "id", Null, "C", 50),
                 DqmRuleOf(2, "null", "val", Null, "NC", Null)>>),
     Catalog("prod", 2, "FTP", "bkt/in/", FALSE, Gold3, <<>>),
     [RulesBase(<<>>) EXCEPT !.deps = <<[DepRow(3, 1) EXCEPT !.transformation_type = "merge"]>>]}

InitRules == InitWith(RulesCatalogs)

SpecRules == InitRules /\ [][NextDay]_vars

(***************************************************************************)
(* The silver layer over one landed batch of MaxRows rows, of which some   *)
(* hold a null val: the state a bronze call leaves behind for a source     *)
(* file of that content.  The record of calls starts at the silver call.   *)
(***************************************************************************)

\* rows of the landed batch
MaxRows == 50

\* the thresholds of the critical rule
GateThresholds == {50, 58}

\* a source file of n rows, the first k of them with a null VAL
GateRows(n, k) ==
    [i \in 1..n |-> [ID |-> ToString(i), VAL |-> IF i <= k THEN Null ELSE "A"]]

GateCatalogs ==
    {RulesBase(<<DqmRuleOf(1, kind, "val", IF kind = "domain" THEN "A" ELSE Null, "C", t)>>) :
        kind \in {"null", "domain"}, t \in GateThresholds}

\* what the first bronze call leaves behind over a source that holds one
\* file of the rows given: the extraction took batch id 1, the landing 2
Landed(name, rows) ==
    /\ day = 1
    /\ clock = 2
    /\ remote = {name}
    /\ LET acq == ctl.acq[1]
           m == ctl.bronze[1]
           uri == ProdSaveLocation(acq.inbound_location, name)
           object == [ProdObject(acq.inbound_location, name) EXCEPT !.rows = rows]
       IN /\ s3 = {object}
          /\ tables = DeltaTableWriterPath(<<>>, {object}, uri,
                                           path_to_s3(m.landing_location, ctl.env).s3_location, 2)
          /\ logAcq = <<AcqLog(acq, 1, uri, "SUCCEEDED")>>
          /\ logRaw = <<[batch_id |-> 2, process_id |-> m.process_id, dataset_id |-> m.dataset_id,
                         source_file |-> uri, file_status |-> "SUCCEEDED"]>>
    /\ logStd = <<>>
    /\ logDqm = <<>>
    /\ logTrn = <<>>
    /\ layer = "idle"
    /\ task = <<>>
    /\ hist = <<>>
    /\ run = NoRun
    /\ faults = 0

InitGate ==
    /\ ctl \in GateCatalogs
    /\ \E k \in 1..MaxRows : Landed("s_20250101.csv", GateRows(MaxRows, k))

NextGate ==
    \/ CallSilver
    \/ TaskStart(1)
    \/ SilverBegin(1)
    \/ StdFile(1)
    \/ DqBegin(1)
    \/ DqFile(1)
    \/ LayerJoin

SpecGate == InitGate /\ [][NextGate]_vars

(***************************************************************************)
(* The pipeline from the state the first bronze call leaves behind over a  *)
(* source that holds s_20250102.csv: the calls that follow a first landing.*)
(***************************************************************************)

RetryCatalogs ==
    {RulesBase(<<DqmRuleOf(1, "integer", "id", Null, "C", 50),
                 DqmRuleOf(2, "null", "val", Null, "NC", Null)>>),
     RulesBase(<<>>)}

InitRetry ==
    /\ ctl \in RetryCatalogs
    /\ Landed("s_20250102.csv", FileRows("s_20250102.csv"))

SpecRetry == InitRetry /\ [][Next]_vars

(***************************************************************************)
(* The gold publish on its own: frames of one or two rows are published    *)
(* into the table of gold dataset 3, on the same or on a later day.        *)
(***************************************************************************)

\* publishes one behaviour makes
MaxPublishes == 3

ScdFrames ==
    LET rows == {[id |-> i, val |-> v] : i \in {"1", "2"}, v \in {"A", "B"}}
    IN {<<r>> : r \in rows} \cup {<<r, q>> : r \in rows, q \in rows}

\* the body of the loop of direct_transformation from the envelope on, for a
\* staging frame that was read
ScdPublish ==
    /\ clock < MaxPublishes
    /\ \E frame \in ScdFrames, strict \in BOOLEAN :
        LET target == path_to_s3(GoldOf(3).transformation_location, ctl.env)
            staging_df == Envelope(frame, GoldColumns, clock + 1, Today)
        IN /\ ~(strict /\ MultipleMatch(TableRows(tables, target.s3_location), staging_df, <<"id">>))
           /\ tables' = Publish(tables, s3, staging_df, target, <<"id">>, clock + 1)
           /\ clock' = clock + 1
    /\ UNCHANGED <<ctl, day, remote, s3, logAcq, logRaw, logStd, logDqm, logTrn, layer, task, hist, run, faults>>

InitScd == InitWith({Catalog("prod", 2, "SFTP", "bkt/in/", FALSE, Gold3, <<>>)})

NextScd ==
    \/ ScdPublish
    \/ DayAdvance

SpecScd == InitScd /\ [][NextScd]_vars

(***************************************************************************)
(* Properties.                                                             *)
(***************************************************************************)

\* the status column of a log row: file_status in log_raw_process
StatusOf(r) == IF "file_status" \in DOMAIN r THEN r.file_status ELSE r.status

\* the source files with a SUCCEEDED row of (process_id, dataset_id) in a log
SucceededFor(log, pid, d) ==
    {r.source_file : r \in {x \in SeqToSet(log) :
        x.process_id = pid /\ x.dataset_id = d /\ StatusOf(x) = "SUCCEEDED"}}

Files(rows) == {r.source_file : r \in SeqToSet(rows)}

\* C1: at each of the three stages the unprocessed selector of a (process,
\* dataset) returns exactly the source files that have a SUCCEEDED row in the
\* predecessor log and no SUCCEEDED row in the log of the stage.
C1_SelectorContract ==
    \A m \in SeqToSet(ctl.bronze) :
        /\ Files(get_data_standardisation_unprocessed_files(logRaw, logStd, m.process_id, m.dataset_id))
             = SucceededFor(logRaw, m.process_id, m.dataset_id) \ Succeeded(logStd)
        /\ Files(get_dqm_unprocessed_files(logStd, logDqm, m.process_id, m.dataset_id))
             = SucceededFor(logStd, m.process_id, m.dataset_id) \ Succeeded(logDqm)
        /\ Files(get_unprocessed_transformation_files(logDqm, logTrn, m.process_id, m.dataset_id))
             = SucceededFor(logDqm, m.process_id, m.dataset_id) \ Succeeded(logTrn)

\* C2: a log_standardization row of a batch exists only when a SUCCEEDED
\* log_raw_process row of that batch and dataset exists, a log_dqm row only
\* when a SUCCEEDED log_standardization row of the batch exists, a
\* log_transformation row only when a log_dqm row of the batch exists under the
\* dataset the gold dataset depends on.  Every step inserts into one log only,
\* so holding in every state this orders the inserts.
C2_LogOrder ==
    /\ \A r \in SeqToSet(logStd) : \E x \in SeqToSet(logRaw) :
          x.batch_id = r.batch_id /\ x.dataset_id = r.dataset_id /\ x.file_status = "SUCCEEDED"
    /\ \A r \in SeqToSet(logDqm) : \E x \in SeqToSet(logStd) :
          /\ x.batch_id = r.batch_id /\ x.status = "SUCCEEDED"
          /\ r.dataset_id \in SeqToSet(PoolOrder("silver")) => x.dataset_id = r.dataset_id
    /\ \A r \in SeqToSet(logTrn) : \E x \in SeqToSet(logDqm) :
          /\ x.batch_id = r.batch_id
          /\ x.dataset_id = get_transformation_dependency_master(r.process_id, r.dataset_id)[1].depedent_dataset_id

C2_Witness ==
    \E r \in SeqToSet(logTrn) : r.status = "SUCCEEDED"

\* run j of the bronze layer follows the successful run i with the source and
\* the inbound zone as run i left them
Rerun(i, j) ==
    /\ i < j
    /\ hist[i].layer = "bronze" /\ hist[i].err = ""
    /\ hist[j].layer = "bronze"
    /\ hist[j].remote0 = hist[i].remote1
    /\ hist[j].s30 = hist[i].s31

Idle(j) == hist[j].raw1 = hist[j].raw0 /\ hist[j].land1 = hist[j].land0

\* C3 as stated: a bronze run that follows a successful one, with the source
\* system and the inbound zone unchanged, inserts no log_raw_process row and
\* appends nothing to a landing table.
C3_Rerun ==
    \A i, j \in DOMAIN hist : Rerun(i, j) => Idle(j)

\* C3, amended: the same, for a second run on the calendar date of the first.
C3_RerunSameDay ==
    \A i, j \in DOMAIN hist : (Rerun(i, j) /\ hist[j].day0 = hist[i].day0) => Idle(j)

C3_Witness ==
    \E i, j \in DOMAIN hist :
        Rerun(i, j) /\ hist[j].day0 = hist[i].day0 /\ hist[i].raw1 > hist[i].raw0

\* SUCCEEDED rows of a log that are about the source file of a name
RowsFor(log, name, field) ==
    Cardinality({i \in DOMAIN log : StatusOf(log[i]) = "SUCCEEDED" /\ BaseName(log[i][field]) = name})

\* the first three calls were one run of bronze, silver and gold in that order,
\* free of transport failures, over a source holding one new file, for one
\* dataset with no DQM rule and one direct gold dataset
FreshRun ==
    /\ Len(hist) >= 3
    /\ hist[1].layer = "bronze" /\ hist[2].layer = "silver" /\ hist[3].layer = "gold"
    /\ hist[1].remote0 = {"s_20250101.csv"}
    /\ hist[3].faults1 = 0
    /\ Len(ctl.dqm) = 0 /\ Len(ctl.gold) = 1

\* C4: one run of bronze, silver and gold over a new matching source file, for
\* a dataset with no DQM rule and a direct gold transform, ends with exactly one
\* SUCCEEDED row for the file in log_acquisition, log_raw_process,
\* log_standardization and log_transformation, one summary log_dqm row of the
\* dataset, and the gold table created.
C4_FreshRun ==
    (FreshRun /\ Len(hist) = 3) =>
        /\ RowsFor(logAcq, "s_20250101.csv", "inbound_file_location") = 1
        /\ RowsFor(logRaw, "s_20250101.csv", "source_file") = 1
        /\ RowsFor(logStd, "s_20250101.csv", "source_file") = 1
        /\ RowsFor(logTrn, "s_20250101.csv", "source_file") = 1
        /\ Cardinality({i \in DOMAIN logDqm : logDqm[i].dataset_id = 1 /\ logDqm[i].qc_type = Null}) = 1
        /\ path_to_s3(ctl.gold[1].transformation_location, ctl.env).s3_location \in DOMAIN tables

\* C5: in every gold table, no two rows of one primary-key value are both
\* active (eff_end_dt = 9999-12-31).
C5_OneActivePerKey ==
    \A m \in SeqToSet(ctl.gold) :
        LET rows == TableRows(tables, path_to_s3(m.transformation_location, ctl.env).s3_location)
        IN \A i, j \in DOMAIN rows :
             (i # j /\ rows[i].id = rows[j].id /\ rows[i].id # Null)
                => ~(rows[i].eff_end_dt = Sentinel /\ rows[j].eff_end_dt = Sentinel)

\* C6: when a layer raises, every task submitted to the pool that joined has
\* run to completion or failure, and the error is that of a failed task.
C6_PoolJoin ==
    \A i \in DOMAIN hist :
        (hist[i].err # "" /\ DOMAIN hist[i].tasks # {}) =>
            /\ \A d \in DOMAIN hist[i].tasks :
                  hist[i].tasks[d].st \in {"done", "failed"} /\ hist[i].tasks[d].pc # ""
            /\ \E d \in DOMAIN hist[i].tasks :
                  hist[i].tasks[d].st = "failed" /\ hist[i].tasks[d].err = hist[i].err

\* a layer raised after one task failed and a sibling submitted after it ran
C6_Witness ==
    \E i \in DOMAIN hist : \E d, e \in DOMAIN hist[i].tasks :
        /\ hist[i].err # ""
        /\ d < e
        /\ hist[i].tasks[d].st = "failed"
        /\ hist[i].tasks[e].st = "done"

\* C7: the B2 pool runs only when every B1 task returned; in a silver task the
\* quality gate is running only when standardization returned without error;
\* in a gold task the gold quality gate only when the transformation did.
C7_StageAbort ==
    /\ layer = "B2" => \A d \in DOMAIN run.b1 : run.b1[d].st = "done"
    /\ \A i \in DOMAIN hist : hist[i].stage = "B2" => \A d \in DOMAIN hist[i].b1 : hist[i].b1[d].st = "done"
    /\ \A d \in DOMAIN task :
          (layer \in {"silver", "gold"} /\ task[d].pc \in {"dq", "dqfile", "tdq"}) => task[d].first = "ok"
    /\ \A d \in DOMAIN task :
          (layer \in {"silver", "gold"} /\ task[d].st = "failed" /\ task[d].first = "")
             => task[d].pc \in {"begin", "std", "xform"}

\* a bronze call raised out of B1, and nothing was landed in it
C7_Witness ==
    \E i \in DOMAIN hist :
        /\ hist[i].stage = "B1" /\ hist[i].err # ""
        /\ \E d \in DOMAIN hist[i].b1 : hist[i].b1[d].st = "failed"
        /\ hist[i].raw1 = hist[i].raw0

\* C8: a gold call over two gold datasets that depend on one bronze dataset,
\* free of transport failures, ends with a SUCCEEDED log_transformation row of
\* each gold dataset for every file that was unprocessed when it started.
C8_GoldIsolation ==
    \A i \in DOMAIN hist :
        (hist[i].layer = "gold" /\ Len(ctl.gold) = 2 /\ hist[i].faults1 = 0 /\ Len(ctl.dqm) = 0) =>
            \A g \in DOMAIN hist[i].u0 : \A f \in hist[i].u0[g] :
                \E r \in SeqToSet(logTrn) :
                    r.dataset_id = g /\ r.source_file = f /\ r.status = "SUCCEEDED"

\* every extraction made so far: the tasks of the B1 pool, running or joined
Attempts ==
    (IF layer = "B1" THEN {task[d] : d \in {x \in DOMAIN task : task[x].st \in {"done", "failed"}}} ELSE {})
    \cup {run.b1[d] : d \in DOMAIN run.b1}
    \cup UNION {{hist[i].b1[d] : d \in DOMAIN hist[i].b1} : i \in DOMAIN hist}

CountRows(rows, status) == Cardinality({i \in DOMAIN rows : rows[i].status = status})

\* C9: an extraction that ended in an error inserted exactly one FAILED
\* log_acquisition row; one that returned inserted SUCCEEDED rows only, one per
\* object it landed.
C9_AttemptLogged ==
    \A a \in Attempts :
        /\ a.st = "failed" => CountRows(a.rows, "FAILED") = 1
        /\ a.st = "done" => (CountRows(a.rows, "FAILED") = 0 /\ Len(a.rows) = Cardinality(a.puts))

\* C10: an extraction writes no object and inserts no SUCCEEDED row for an
\* inbound uri that a SUCCEEDED log_acquisition row of its dataset held when it
\* started.
C10_NoReextract ==
    \A a \in Attempts :
        /\ a.puts \cap a.seen = {}
        /\ \A k \in DOMAIN a.rows :
              a.rows[k].status = "SUCCEEDED" => a.rows[k].inbound_file_location \notin a.seen

\* the B1 pools that joined: the one of the running call and those of the
\* calls that returned
JoinedB1 == {run.b1} \cup {hist[i].b1 : i \in DOMAIN hist}

\* C11: a B1 task of an SFTP or object-store dataset that returned had a
\* candidate file (it inserted a log_acquisition row), and a B2 task that
\* returned had one too (the call inserted a SUCCEEDED log_raw_process row of
\* its dataset): a task left with no candidate fails.
C11_EmptyWorkFails ==
    /\ \A t \in JoinedB1 : \A d \in DOMAIN t :
          (AcqOf(d).outbound_source_platform \in {"SFTP", "S3"} /\ t[d].st = "done")
             => Len(t[d].rows) > 0
    /\ \A i \in DOMAIN hist : \A d \in DOMAIN hist[i].tasks :
          (hist[i].stage = "B2" /\ hist[i].tasks[d].st = "done")
             => \E k \in (hist[i].raw0 + 1)..hist[i].raw1 :
                   logRaw[k].dataset_id = d /\ logRaw[k].file_status = "SUCCEEDED"

\* the platforms _handle_extraction has a branch for
SupportedPlatforms == Platforms \cup {"VEEVA"}

\* C12: a B1 task over an acquisition row of an unsupported platform failed
\* and left a FAILED log_acquisition row; a gold task of a dataset whose
\* transformation type is none of direct, union, join, custom failed and left
\* a FAILED log_transformation row of the dataset.
C12_ConfigErrorLogged ==
    /\ \A t \in JoinedB1 : \A d \in DOMAIN t :
          AcqOf(d).outbound_source_platform \notin SupportedPlatforms
             => (t[d].st = "failed" /\ CountRows(t[d].rows, "FAILED") >= 1)
    /\ \A i \in DOMAIN hist : \A g \in DOMAIN hist[i].tasks :
          (hist[i].layer = "gold"
             /\ ToLower(get_transformation_dependency_master(1, g)[1].transformation_type) \notin TransformationTypes)
             => /\ hist[i].tasks[g].st = "failed"
                /\ \E r \in SeqToSet(logTrn) : r.dataset_id = g /\ r.status = "FAILED"

\* the function names the rule loop of DataStandardization has a branch for
StandardizationFunctions ==
    {"padding", "trim", "blank_conversion", "replace", "type_conversion", "sub_string"}

\* the rows of batch b in the standardized snapshot of bronze dataset d
StandardizedRows(tbls, d, b) ==
    LET loc == path_to_s3(BronzeOf(d).data_standardisation_location, ctl.env).s3_location
    IN SelectSeq(TableRows(tbls, loc), LAMBDA r : r.batch_id = b)

\* the log_standardization rows a step inserts
NewStdRows == {logStd'[k] : k \in (Len(logStd) + 1)..Len(logStd')}

\* C13: a standardization attempt on a batch of a dataset that has a rule of
\* an unknown function inserts a FAILED log_standardization row of the batch,
\* inserts no SUCCEEDED row of it and leaves the standardized snapshot of the
\* batch as it was.
C13_UnknownFunctionAborts ==
    [][\A r \in NewStdRows :
          (\E q \in SeqToSet(get_data_standard_dtl(r.dataset_id)) :
                q.function_name \notin StandardizationFunctions)
             => /\ \E x \in NewStdRows : x.batch_id = r.batch_id /\ x.status = "FAILED"
                /\ ~\E x \in NewStdRows : x.batch_id = r.batch_id /\ x.status = "SUCCEEDED"
                /\ StandardizedRows(tables', r.dataset_id, r.batch_id)
                      = StandardizedRows(tables, r.dataset_id, r.batch_id)]_vars

\* the step is a turn of the standardization loop of dataset d: an attempt on
\* the batch at the head of its list
StdAttempt(d) ==
    /\ layer = "silver"
    /\ d \in DOMAIN task /\ d \in DOMAIN task'
    /\ task[d].st = "running" /\ task[d].pc = "std"
    /\ task'[d] # task[d]

\* C14: every standardization attempt on a batch inserts exactly one
\* log_standardization row, and the row is of that batch.
C14_OneRowPerAttempt ==
    [][\A d \in DatasetIds :
          StdAttempt(d) =>
              /\ Len(logStd') = Len(logStd) + 1
              /\ logStd'[Len(logStd')].batch_id = Head(task[d].todo).batch_id]_vars

\* the rule rows the quality gate inserted for batch b of dataset d
GateRowsOf(d, b) ==
    SelectSeq(logDqm, LAMBDA r : r.dataset_id = d /\ r.batch_id = b /\ r.qc_type # Null)

\* the rows of batch b in the staging snapshot of bronze dataset d
StagedRows(tbls, d, b) ==
    LET loc == path_to_s3(BronzeOf(d).staging_location, ctl.env).s3_location
    IN SelectSeq(TableRows(tbls, loc), LAMBDA r : r.batch_id = b)

\* the rows of a frame that fail rule q
FailingRows(df, q) ==
    CASE q.qc_type = "null" -> {i \in DOMAIN df : df[i][q.column_name] = Null}
      [] q.qc_type = "domain" ->
            {i \in DOMAIN df : df[i][q.column_name] = Null
                                  \/ df[i][q.column_name] \notin SeqToSet(Split(q.qc_param, ","))}
      [] q.qc_type \in {"integer", "decimal"} -> {i \in DOMAIN df : ~IsInteger(df[i][q.column_name])}
      [] q.qc_type = "unique" ->
            {i \in DOMAIN df : \E j \in 1..(i - 1) :
                \A c \in SeqToSet(Split(q.column_name, ",")) : df[i][c] = df[j][c]}

\* C15: once the quality gate of a silver task has run over a batch whose
\* first rule is critical and is failed by a share of the rows at or above
\* its threshold (failed * 100 >= threshold * total), the log holds a FAILED
\* row of the rule with the count of the failing rows, the task has failed,
\* and staging holds no row of the batch.
C15_CriticalBreach ==
    \A i \in DOMAIN hist : \A d \in DOMAIN hist[i].tasks :
        (hist[i].layer = "silver" /\ hist[i].tasks[d].first = "ok" /\ Len(get_dqm_detail(1, d)) > 0) =>
            \A f \in SeqToSet(get_log_raw_process_dtl(logRaw, 1, d, "SUCCEEDED")) :
                LET q == get_dqm_detail(1, d)[1]
                    df == StandardizedRows(tables, d, f.batch_id)
                    failed == Cardinality(FailingRows(df, q))
                IN (/\ Len(df) > 0
                    /\ \E r \in SeqToSet(logDqm) : r.batch_id = f.batch_id
                    /\ q.criticality = "C"
                    /\ failed > 0
                    /\ failed * 100 >= q.criticality_threshold_pct * Len(df))
                   => /\ \E r \in SeqToSet(GateRowsOf(d, f.batch_id)) :
                            r.qc_type = q.qc_type /\ r.status = "FAILED" /\ r.error_count = failed
                      /\ hist[i].tasks[d].st = "failed"
                      /\ StagedRows(tables, d, f.batch_id) = <<>>

\* the rows of df that do not fail rule q
PassingRows(df, q) == AtIndices(df, DOMAIN df \ FailingRows(df, q))

\* the frame that has passed the first j of the rules
RECURSIVE PassedFirst(_, _, _)
PassedFirst(df, rules, j) ==
    IF j = 0 THEN df ELSE PassingRows(PassedFirst(df, rules, j - 1), rules[j])

\* the step is a turn of the quality gate of dataset d over a batch
DqAttempt(d) ==
    /\ layer = "silver"
    /\ d \in DOMAIN task /\ d \in DOMAIN task'
    /\ task[d].st = "running" /\ task[d].pc = "dqfile"
    /\ task'[d] # task[d]

\* rule j of the gate has failing rows among those that passed the rules
\* before it, and is NC, or C with the failing share below its threshold
Tolerated(df, rules, j) ==
    LET in == PassedFirst(df, rules, j - 1)
        failed == Cardinality(FailingRows(in, rules[j]))
    IN /\ failed > 0
       /\ \/ rules[j].criticality = "NC"
          \/ /\ rules[j].criticality = "C"
             /\ failed * 100 < rules[j].criticality_threshold_pct * Len(in)

C17_NoFailure ==
    [][\A d \in DatasetIds :
          (DqAttempt(d) /\ Len(get_dqm_detail(1, d)) > 0) =>
             LET rules == get_dqm_detail(1, d)
                 file == Head(task[d].todo)
                 df == StandardizedRows(tables, d, file.batch_id)
                 new == SubSeq(logDqm', Len(logDqm) + 1, Len(logDqm'))
                 reached(j) == Len(new) >= j - 1 /\ \A k \in 1..(j - 1) : new[k].status = "SUCCEEDED"
             IN \A j \in DOMAIN rules :
                  (reached(j) /\ FailingRows(PassedFirst(df, rules, j - 1), rules[j]) = {}) =>
                     /\ Len(new) >= j
                     /\ new[j].status = "SUCCEEDED"
                     /\ new[j].qc_type = rules[j].qc_type
                     /\ new[j].error_count = 0
                     /\ j = Len(rules) =>
                           StagedRows(tables', d, file.batch_id)
                             = StagedRows(tables, d, file.batch_id)
                                 \o Stamp(PassedFirst(df, rules, j - 1), file.batch_id)]_vars

\* the rows of batch b in the tables of the gold datasets
GoldRowsOf(b) ==
    UNION {{r \in SeqToSet(TableRows(tables, path_to_s3(m.transformation_location, ctl.env).s3_location)) :
               r.batch_id = b} : m \in SeqToSet(ctl.gold)}

\* C18: a batch with a FAILED log_dqm row of a critical rule has no SUCCEEDED
\* log_transformation row and no row in a gold table.
C18_BreachStopsGold ==
    \A r \in SeqToSet(logDqm) :
        (r.status = "FAILED" /\ r.criticality = "C") =>
            /\ ~\E x \in SeqToSet(logTrn) : x.batch_id = r.batch_id /\ x.status = "SUCCEEDED"
            /\ GoldRowsOf(r.batch_id) = {}

\* the rows of batch b of bronze dataset d as landed, renamed
LandedRows(d, b) ==
    LET loc == path_to_s3(BronzeOf(d).landing_location, ctl.env).s3_location
    IN Rename(SelectSeq(TableRows(tables, loc), LAMBDA r : r.batch_id = b), ColumnMeta)

\* C19: when the silver task of a dataset has returned without error, every
\* row of every batch landed for the dataset before the call returned that
\* fails none of the rules of the dataset is in the staging snapshot, with its
\* renamed columns and the batch id of the landing.
C19_RoundTrip ==
    \A i \in DOMAIN hist : \A d \in DOMAIN hist[i].tasks :
        (hist[i].layer = "silver" /\ hist[i].tasks[d].st = "done") =>
            \A k \in 1..hist[i].raw1 :
                (logRaw[k].dataset_id = d /\ logRaw[k].file_status = "SUCCEEDED") =>
                    LET passed == PassedFirst(LandedRows(d, logRaw[k].batch_id),
                                              get_dqm_detail(1, d), Len(get_dqm_detail(1, d)))
                    IN \A r \in SeqToSet(passed) :
                          r \in SeqToSet(StagedRows(tables, d, logRaw[k].batch_id))

\* the SUCCEEDED log_raw_process rows of bronze dataset d
LandedFiles(d) == {f \in SeqToSet(logRaw) : f.dataset_id = d /\ f.file_status = "SUCCEEDED"}

\* the source rows of a landed file, with the renamed business columns
SourceRowsOf(f) == SeqToSet(Rename(ReadObject(s3, f.source_file).rows, ColumnMeta))

\* the renamed business columns of a table row
Business(r) ==
    IF "ID" \in DOMAIN r THEN [id |-> r.ID, val |-> r.VAL] ELSE [id |-> r.id, val |-> r.val]

\* every row of the table at a location carries the batch id of a landed file
\* of dataset d that holds the row
RowsOfLanded(location, d) ==
    \A r \in SeqToSet(TableRows(tables, path_to_s3(location, ctl.env).s3_location)) :
        \E f \in LandedFiles(d) : f.batch_id = r.batch_id /\ Business(r) \in SourceRowsOf(f)

GoldAttempt(g) ==
    /\ layer = "gold"
    /\ g \in DOMAIN task /\ g \in DOMAIN task'
    /\ task[g].st = "running" /\ task[g].pc = "xform"
    /\ task'[g] # task[g]

\* the batch ids a task still holds to process
Pending(d) == {task[d].todo[k].batch_id : k \in DOMAIN task[d].todo}

\* the rows a step appends to a log
Appended(old, new) == {new[k] : k \in (Len(old) + 1)..Len(new)}

\* C21: at standardization, at the silver quality gate and at the gold
\* transformation, the batch a turn of a dataset's task processes is the one
\* of least batch_id among the batches the task still holds unprocessed.
C21_AscendingBatchOrder ==
    [][\A d \in DatasetIds :
          /\ StdAttempt(d) =>
                \A r \in Appended(logStd, logStd') : \A b \in Pending(d) : r.batch_id <= b
          /\ DqAttempt(d) =>
                \A r \in Appended(logDqm, logDqm') : \A b \in Pending(d) : r.batch_id <= b
          /\ GoldAttempt(d) =>
                \A r \in Appended(logTrn, logTrn') : \A b \in Pending(d) : r.batch_id <= b]_vars

\* C22: a turn of the quality gate over a batch of a dataset that has no DQM
\* rule leaves the standardized frame of the batch, unchanged, as the staging
\* snapshot of the batch, and inserts exactly one log_dqm row: of that batch,
\* with status SUCCEEDED and error_count 0.
C22_NoRulePassThrough ==
    [][\A d \in DatasetIds :
          (DqAttempt(d) /\ Len(get_dqm_detail(BronzeOf(d).process_id, d)) = 0) =>
             LET file == Head(task[d].todo)
                 new == SubSeq(logDqm', Len(logDqm) + 1, Len(logDqm'))
             IN /\ StagedRows(tables', d, file.batch_id) = StandardizedRows(tables, d, file.batch_id)
                /\ StandardizedRows(tables', d, file.batch_id) = StandardizedRows(tables, d, file.batch_id)
                /\ Len(new) = 1
                /\ new[1].dataset_id = d
                /\ new[1].batch_id = file.batch_id
                /\ new[1].source_file = file.source_file
                /\ new[1].status = "SUCCEEDED"
                /\ new[1].error_count = 0]_vars

\* two batches of a dataset without rules went through the gate in one call
C22_Witness ==
    /\ Len(ctl.dqm) = 0
    /\ \E i, j \in DOMAIN logDqm :
          /\ i < j
          /\ logDqm[i].dataset_id = 1 /\ logDqm[j].dataset_id = 1
          /\ logDqm[i].batch_id # logDqm[j].batch_id
          /\ logDqm[i].qc_type = Null /\ logDqm[j].qc_type = Null
          /\ StagedRows(tables, 1, logDqm[i].batch_id) # <<>>
          /\ StagedRows(tables, 1, logDqm[j].batch_id) # <<>>
          /\ StagedRows(tables, 1, logDqm[j].batch_id) = StandardizedRows(tables, 1, logDqm[j].batch_id)

\* the gold table of dataset 3
GoldTable == TableRows(tables, path_to_s3(GoldOf(3).transformation_location, ctl.env).s3_location)

\* the rows of a table that are active for key K
ActiveFor(rows, K) == {j \in DOMAIN rows : rows[j].id = K /\ rows[j].eff_end_dt = Sentinel}

\* C23: merging into the gold table a staging frame that holds a row of key K
\* with a checksum other than that of an active gold row of K closes the old
\* row (eff_end_dt = the staging row's eff_strt_dt, sys_del_flg = 'Y') and
\* leaves exactly one active row of K: eff_end_dt 9999-12-31, sys_del_flg 'N',
\* the staging row's checksum.
C23_ScdUpdate ==
    \A frame \in ScdFrames :
        LET target == GoldTable
            staging_df == Envelope(frame, GoldColumns, clock + 1, Today)
            after == DeltaTableWriterScdType2(target, staging_df, <<"id">>)
        IN \A i \in DOMAIN target : \A s \in DOMAIN staging_df :
             (/\ target[i].eff_end_dt = Sentinel
              /\ target[i].id = staging_df[s].id
              /\ target[i].sys_checksum # staging_df[s].sys_checksum) =>
                 /\ after[i].eff_end_dt = staging_df[s].eff_strt_dt
                 /\ after[i].sys_del_flg = "Y"
                 /\ Cardinality(ActiveFor(after, target[i].id)) = 1
                 /\ \A j \in ActiveFor(after, target[i].id) :
                       /\ j > Len(target)
                       /\ after[j].sys_del_flg = "N"
                       /\ after[j].sys_checksum = staging_df[s].sys_checksum

\* every row of the staging frame has an active row of the table with its key
\* and its checksum
SameAsActive(target, staging_df) ==
    \A s \in DOMAIN staging_df : \E i \in DOMAIN target :
        /\ target[i].eff_end_dt = Sentinel
        /\ target[i].id = staging_df[s].id
        /\ target[i].sys_checksum = staging_df[s].sys_checksum

\* C24: merging a staging frame whose rows have the keys and the checksums of
\* active gold rows leaves the gold table as it is, and publishing a frame a
\* second time leaves the gold table as the first publish left it.
C24_PublishIdempotent ==
    \A frame \in ScdFrames :
        LET target_path == path_to_s3(GoldOf(3).transformation_location, ctl.env)
            staging_df == Envelope(frame, GoldColumns, clock + 1, Today)
            once == Publish(tables, s3, staging_df, target_path, <<"id">>, clock + 1)
            twice == Publish(once, s3, staging_df, target_path, <<"id">>, clock + 1)
        IN /\ SameAsActive(GoldTable, staging_df) =>
                 DeltaTableWriterScdType2(GoldTable, staging_df, <<"id">>) = GoldTable
           /\ TableRows(twice, target_path.s3_location) = TableRows(once, target_path.s3_location)

\* uri names an object directly under the inbound location of acquisition
\* row a, in the bucket of the configured env
UnderInbound(a, uri) ==
    LET p == path_to_s3(a.inbound_location, ctl.env)
        prefix == "s3a://" \o p.bucket \o "/" \o RStrip(p.key, "/") \o "/"
    IN /\ StartsWith(uri, prefix)
       /\ Len(uri) > Len(prefix)
       /\ ~Contains(Drop(uri, Len(prefix)), "/")

\* C25: every inbound object the extractors wrote and every inbound uri they
\* logged as SUCCEEDED lies in the bucket env-<first segment of
\* inbound_location> under the key inbound_location/basename, and the objects
\* the bronze B2 stage lists under the resolved inbound path of the datasets
\* are exactly the objects the extractors landed.
C25_EnvIsolation ==
    /\ \A o \in s3 : \E a \in SeqToSet(ctl.acq) :
          UnderInbound(a, "s3a://" \o o.bucket \o "/" \o o.key)
    /\ \A k \in DOMAIN logAcq :
          logAcq[k].status = "SUCCEEDED" =>
              UnderInbound(AcqOf(logAcq[k].pre_ingestion_dataset_id), logAcq[k].inbound_file_location)
    /\ {o.key : o \in s3}
         = UNION {LET p == path_to_s3(m.inbound_location, ctl.env)
                  IN s3_list_files(s3, tables, p.bucket, p.key) : m \in SeqToSet(ctl.bronze)}

(***************************************************************************)
(* File patterns: a query-based dataset whose file pattern is drawn from   *)
(* the patterns built of literal text, '*' and the date tokens.  The       *)
(* extractor renders the inbound name with file_name_generator and bronze  *)
(* B2 filters the inbound files with validate_pattern.                     *)
(***************************************************************************)

MaxParts == 3

PatternParts == {"s_", "*", "YYYY", "YYYYMM", "YYYYMMDD"}

RECURSIVE PatternsOf(_)
PatternsOf(n) ==
    IF n = 0 THEN {""}
    ELSE {a \o b : a \in PatternParts, b \in PatternsOf(n - 1)} \cup PatternsOf(n - 1)

Patterns == {p \o ".csv" : p \in PatternsOf(MaxParts) \ {""}}

PatternCatalog(p) ==
    LET c == Catalog("prod", 2, "DATABASE", "bkt/in/", FALSE, Gold3, <<>>)
    IN [c EXCEPT !.acq = <<[c.acq[1] EXCEPT !.outbound_source_file_pattern = p]>>,
                 !.bronze = <<[c.bronze[1] EXCEPT !.inbound_file_pattern = p]>>]

PatternCatalogs == {PatternCatalog(p) : p \in Patterns}

InitPattern == InitWith(PatternCatalogs) /\ remote = {}

NextPattern ==
    \/ CallBronze
    \/ TaskStart(1)
    \/ B1Run(1)
    \/ B2Begin(1)
    \/ B2Land(1)
    \/ B1Join
    \/ LayerJoin
    \/ DayAdvance

SpecPattern == InitPattern /\ [][NextPattern]_vars

\* C26: the name the extractor rendered with file_name_generator from the
\* file pattern of its dataset, on the day it ran, is accepted by
\* validate_pattern under that pattern in non-static mode.
C26_RenderedNameAccepted ==
    \A k \in DOMAIN logAcq :
        logAcq[k].status = "SUCCEEDED" =>
            validate_pattern(AcqOf(logAcq[k].pre_ingestion_dataset_id).outbound_source_file_pattern,
                             BaseName(logAcq[k].inbound_file_location), FALSE) = "True"

\* the pattern holds none of the date tokens (each of them holds YYYY)
NoDateToken(p) == ~Contains(p, "YYYY")

\* the name matches the pattern read with '*' as a wildcard
WildcardMatches(p, name) == regex_pattern_matches(Replace(p, "*", ".*"), name)

\* the head of the B2 task of dataset d runs
B2Head(d) ==
    /\ layer = "B2"
    /\ d \in DOMAIN task /\ d \in DOMAIN task'
    /\ task[d].st = "running" /\ task[d].pc = "begin"
    /\ task'[d] # task[d]

\* the inbound uris of a dataset that no SUCCEEDED log_raw_process row holds
Unlanded(m) ==
    LET inbound_path == path_to_s3(m.inbound_location, ctl.env)
    IN {"s3a://" \o inbound_path.bucket \o "/" \o x :
           x \in s3_list_files(s3, tables, inbound_path.bucket, inbound_path.key)}
       \ {r.source_file : r \in SeqToSet(get_log_raw_process_dtl(logRaw, m.process_id, m.dataset_id, "SUCCEEDED"))}

\* C27: when the B2 task of a dataset whose inbound_file_pattern holds no date
\* token starts, every inbound file not yet landed whose name matches the
\* pattern (literal text and '*' wildcards) is accepted by validate_pattern in
\* non-static mode and is taken by the task for landing.
C27_NoTokenPromoted ==
    [][\A d \in BronzeIds :
          (B2Head(d) /\ NoDateToken(BronzeOf(d).inbound_file_pattern)) =>
              \A x \in Unlanded(BronzeOf(d)) :
                  WildcardMatches(BronzeOf(d).inbound_file_pattern, BaseName(x)) =>
                      /\ validate_pattern(BronzeOf(d).inbound_file_pattern, BaseName(x), FALSE) = "True"
                      /\ task'[d].pc = "land"
                      /\ x \in SeqToSet(task'[d].todo)]_vars

(***************************************************************************)
(* The join transformation: gold dataset 3 joins the staged datasets 1 and *)
(* 2.  The key lists of either dependency row have one or two columns.     *)
(***************************************************************************)

JoinKeys == {<<"id", "id">>, <<"id,val", "id">>}

JoinCatalog(first, second, how) ==
    [Catalog("prod", 1, "SFTP", "bkt/in/", TRUE, Gold3, <<>>) EXCEPT
        !.deps = <<JoinDepRow(3, 1, "inner", first[1], first[2]),
                   JoinDepRow(3, 2, how, second[1], second[2])>>]

JoinCatalogs ==
    {JoinCatalog(first, second, how) : first \in JoinKeys, second \in JoinKeys, how \in {"inner", "left"}}

InitJoin == InitWith(JoinCatalogs) /\ remote = {"s_20250101.csv"}

NextJoin ==
    \/ CallBronze
    \/ CallSilver
    \/ CallGold
    \/ \E d \in DatasetIds : TaskStart(d)
    \/ \E d \in DatasetIds : B1Run(d)
    \/ \E d \in DatasetIds : B2Begin(d)
    \/ \E d \in DatasetIds : B2Land(d)
    \/ \E d \in DatasetIds : SilverBegin(d)
    \/ \E d \in DatasetIds : StdFile(d)
    \/ \E d \in DatasetIds : DqBegin(d)
    \/ \E d \in DatasetIds : DqFile(d)
    \/ \E d \in DatasetIds : GoldBegin(d)
    \/ \E d \in DatasetIds : JoinFile(d)
    \/ \E d \in DatasetIds : TransformationDataQualityCheck(d)
    \/ B1Join
    \/ LayerJoin

SpecJoin == InitJoin /\ [][NextJoin]_vars

\* a turn of the join transformation of dataset g over one unprocessed batch
JoinAttempt(g) ==
    /\ layer = "gold"
    /\ g \in DOMAIN task /\ g \in DOMAIN task'
    /\ task[g].st = "running" /\ task[g].pc = "join"
    /\ task'[g] # task[g]

\* the key lists of a dependency row differ in length
KeyCountMismatch(dep) ==
    Len(Split(dep.left_table_columns, ",")) # Len(Split(dep.right_table_columns, ","))

\* the turn failed on the key lists: nothing is written, one FAILED
\* log_transformation row of a batch of the task is inserted, the task raises
FailedOnKeys(g) ==
    /\ tables' = tables
    /\ \E k \in DOMAIN task[g].todo :
          logTrn' = Append(logTrn, TrnLog(GoldOf(g), task[g].todo[k], "FAILED"))
    /\ task'[g].st = "failed"
    /\ task'[g].err = "ValueError"

\* C28, as stated: a turn of the join transformation of a dataset one of whose
\* dependency rows has key lists of different lengths writes nothing, inserts
\* one FAILED log_transformation row and raises.
C28_KeyCountMismatch ==
    [][\A g \in DatasetIds :
          (/\ JoinAttempt(g)
           /\ \E dep \in SeqToSet(get_transformation_dependency_master(GoldOf(g).process_id, g)) :
                 KeyCountMismatch(dep)) => FailedOnKeys(g)]_vars

\* C28, amended: the same for a dependency row after the first, the rows whose
\* frames are joined to the base frame.
C28_JoinedKeyCountMismatch ==
    [][\A g \in DatasetIds :
          (/\ JoinAttempt(g)
           /\ \E dep \in SeqToSet(Tail(get_transformation_dependency_master(GoldOf(g).process_id, g))) :
                 KeyCountMismatch(dep)) => FailedOnKeys(g)]_vars

\* a join task failed on the key lists of its second dependency row, with no
\* gold table written
C28_Witness ==
    /\ Len(ctl.deps) = 2
    /\ KeyCountMismatch(ctl.deps[2])
    /\ 3 \in DOMAIN task
    /\ task[3].st = "failed" /\ task[3].err = "ValueError"
    /\ \E k \in DOMAIN logTrn : logTrn[k].dataset_id = 3 /\ logTrn[k].status = "FAILED"
    /\ path_to_s3(GoldOf(3).transformation_location, ctl.env).s3_location \notin DOMAIN tables

(***************************************************************************)
(* Rules with an active_flag: a rule on dataset 2, whose dataset_id is not *)
(* its process_id; an inactive critical rule; an inactive rule of lesser   *)
(* qc_id listed after an active one.                                       *)
(***************************************************************************)

FlagCatalogs ==
    {Catalog("prod", 1, "SFTP", "bkt/in/", TRUE, Gold3,
             <<DqmRuleFlagged(1, 2, "null", "val", "NC", 0, "Y")>>),
     Catalog("prod", 2, "SFTP", "bkt/in/", FALSE, Gold3,
             <<DqmRuleFlagged(1, 1, "null", "val", "C", 50, "N")>>),
     Catalog("prod", 2, "SFTP", "bkt/in/", FALSE, Gold3,
             <<DqmRuleFlagged(2, 1, "integer", "id", "NC", 0, "Y"),
               DqmRuleFlagged(1, 1, "null", "val", "NC", 0, "N")>>)}

InitFlags == InitWith(FlagCatalogs)

SpecFlags == InitFlags /\ [][NextDay]_vars

\* C29: every log_dqm row of a bronze dataset, the rows the silver quality
\* gate writes for rule results and for the no-rule summary, carries the
\* process_id of the dataset_master row of its dataset.
C29_LogDqmProcessId ==
    \A k \in DOMAIN logDqm :
        logDqm[k].dataset_id \in {m.dataset_id : m \in SeqToSet(ctl.bronze)} =>
            logDqm[k].process_id = BronzeOf(logDqm[k].dataset_id).process_id

\* the rules of a bronze dataset that are flagged active
ActiveRules(d) ==
    SelectSeq(get_dqm_detail(BronzeOf(d).process_id, d), LAMBDA q : q.active_flag = "Y")

\* the qc_id of the rule of dataset d a log_dqm row is of
QcIdOf(d, row) ==
    (CHOOSE q \in SeqToSet(get_dqm_detail(BronzeOf(d).process_id, d)) : q.qc_type = row.qc_type).qc_id

\* C30: a turn of the quality gate over a batch of a dataset with rules
\* inserts log_dqm rows of active rules only, in ascending qc_id order, fails
\* only on a FAILED row of an active rule, and stages the rows that the active
\* rules leave of the standardized frame.
C30_ActiveRulesOnly ==
    [][\A d \in DatasetIds :
          (DqAttempt(d) /\ Len(get_dqm_detail(BronzeOf(d).process_id, d)) > 0) =>
             LET file == Head(task[d].todo)
                 df == StandardizedRows(tables, d, file.batch_id)
                 new == SubSeq(logDqm', Len(logDqm) + 1, Len(logDqm'))
                 ruled == SelectSeq(new, LAMBDA r : r.qc_type # Null)
             IN /\ \A k \in DOMAIN ruled :
                      \E q \in SeqToSet(ActiveRules(d)) : q.qc_type = ruled[k].qc_type
                /\ \A j, k \in DOMAIN ruled :
                      j < k => QcIdOf(d, ruled[j]) < QcIdOf(d, ruled[k])
                /\ task'[d].st = "failed" =>
                      \E k \in DOMAIN ruled :
                          /\ ruled[k].status = "FAILED"
                          /\ \E q \in SeqToSet(ActiveRules(d)) : q.qc_type = ruled[k].qc_type
                /\ task'[d].st # "failed" =>
                      StagedRows(tables', d, file.batch_id)
                         = DqRules(ActiveRules(d), df, <<>>, BronzeOf(d), file).df]_vars

(***************************************************************************)
(* DeltaTableWriter over its three kinds of input: a data frame, the path  *)
(* of an inbound object, a list of dicts.  Each write takes the next batch *)
(* id and appends to one of two tables.                                    *)
(***************************************************************************)

MaxWrites == 3

WriterFrames ==
    {FileRows(n) : n \in SeqToSet(SrcNames)} \cup {<<[ID |-> "3", VAL |-> "C", batch_id |-> 0]>>}

WriterObjects == {ProdObject("bkt/in/", n) : n \in SeqToSet(SrcNames)}

WriterTables == {"s3a://prod-bkt/land1", "s3a://prod-bkt/land2"}

InitWriter ==
    /\ InitWith({Catalog("prod", 2, "SFTP", "bkt/in/", FALSE, Gold3, <<>>)})
    /\ remote = {}

WriteFrame ==
    /\ clock < MaxWrites
    /\ \E input_data \in WriterFrames, save_location \in WriterTables :
          tables' = DeltaTableWriter(tables, input_data, save_location, clock + 1)
    /\ clock' = clock + 1
    /\ s3' = s3
    /\ UNCHANGED <<ctl, day, remote, logAcq, logRaw, logStd, logDqm, logTrn, layer, task, hist, run, faults>>

WritePath ==
    /\ clock < MaxWrites
    /\ \E o \in WriterObjects, save_location \in WriterTables :
          /\ s3' = S3Put(s3, o)
          /\ tables' = DeltaTableWriterPath(tables, s3', "s3a://" \o o.bucket \o "/" \o o.key,
                                            save_location, clock + 1)
    /\ clock' = clock + 1
    /\ UNCHANGED <<ctl, day, remote, logAcq, logRaw, logStd, logDqm, logTrn, layer, task, hist, run, faults>>

WriteDicts ==
    /\ clock < MaxWrites
    /\ \E input_data \in WriterFrames, save_location \in WriterTables :
          tables' = DeltaTableWriterDicts(tables, input_data, save_location, clock + 1)
    /\ clock' = clock + 1
    /\ s3' = s3
    /\ UNCHANGED <<ctl, day, remote, logAcq, logRaw, logStd, logDqm, logTrn, layer, task, hist, run, faults>>

NextWriter ==
    \/ WriteFrame
    \/ WritePath
    \/ WriteDicts

SpecWriter == InitWriter /\ [][NextWriter]_vars

LandPatterns == {"s_YYYYMMDD.csv", "s_YYYYMMDD.dat", "s_YYYYMMDD", "s_*"}

LandCatalog(e, platform, p) ==
    LET c == Catalog(e, 2, platform, "bkt/in/", FALSE, Gold3, <<>>)
    IN [c EXCEPT !.acq = <<[c.acq[1] EXCEPT !.outbound_source_file_pattern = p]>>,
                 !.bronze = <<[c.bronze[1] EXCEPT !.inbound_file_pattern = p]>>]

LandCatalogs ==
    {LandCatalog("prod", platform, p) : platform \in {"SFTP", "S3"}, p \in LandPatterns}

InitLand ==
    /\ ctl \in LandCatalogs
    /\ day = 1
    /\ clock = 0
    /\ remote \in {{"s_20250101.dat"}, {"s_20250101.csv", "s_20250101.dat"}}
    /\ s3 = {}
    /\ tables = <<>>
    /\ logAcq = <<>>
    /\ logRaw = <<>>
    /\ logStd = <<>>
    /\ logDqm = <<>>
    /\ logTrn = <<>>
    /\ layer = "idle"
    /\ task = <<>>
    /\ hist = <<>>
    /\ run = NoRun
    /\ faults = 0

NextLand ==
    \/ CallBronze
    \/ TaskStart(1)
    \/ B1Run(1)
    \/ B2Begin(1)
    \/ B2Land(1)
    \/ B1Join
    \/ LayerJoin
    \/ SourceArrives

SpecLand == InitLand /\ [][NextLand]_vars

\* the rows of the landing table of bronze dataset d that carry batch b
LandingRows(d, b) ==
    SelectSeq(TableRows(tables, path_to_s3(BronzeOf(d).landing_location, ctl.env).s3_location),
              LAMBDA r : r.batch_id = b)

\* C32: log_raw_process holds no SUCCEEDED row for an object whose rows were
\* not appended to the landing table; an object whose name is neither CSV
\* nor TXT is recorded as FAILED.
C32_SucceededMeansLanded ==
    \A k \in DOMAIN logRaw :
        /\ logRaw[k].file_status = "SUCCEEDED" =>
              Len(LandingRows(logRaw[k].dataset_id, logRaw[k].batch_id)) > 0
        /\ ~(Contains(logRaw[k].source_file, "csv") \/ Contains(logRaw[k].source_file, "txt")) =>
              logRaw[k].file_status = "FAILED"

(***************************************************************************)
(* The union transformation over two staged bronze datasets.               *)
(***************************************************************************)

\* the extra_values of the two dependency rows of the union
UnionExtras == {<<Null, Null>>, <<"src='a'", "src='b'">>, <<"src='a',kind='x'", "src='b',kind='y'">>}

\* ctlColumnMetadata of the gold dataset of the union
UnionColumns == {<<"id", "val">>, <<"id", "val", "src">>}

UnionCatalog(extras, columns) ==
    [deps |-> <<UnionDepRow(3, 1, extras[1]), UnionDepRow(3, 2, extras[2])>>,
     columns |-> columns]
    @@ Catalog("prod", 1, "SFTP", "bkt/in/", TRUE, Gold3, <<>>)

UnionCatalogs == {UnionCatalog(extras, columns) : extras \in UnionExtras, columns \in UnionColumns}

InitUnion == InitWith(UnionCatalogs) /\ remote = {"s_20250101.csv"}

NextUnion ==
    \/ CallBronze
    \/ CallSilver
    \/ CallGold
    \/ \E d \in DatasetIds : TaskStart(d)
    \/ \E d \in DatasetIds : B1Run(d)
    \/ \E d \in DatasetIds : B2Begin(d)
    \/ \E d \in DatasetIds : B2Land(d)
    \/ \E d \in DatasetIds : SilverBegin(d)
    \/ \E d \in DatasetIds : StdFile(d)
    \/ \E d \in DatasetIds : DqBegin(d)
    \/ \E d \in DatasetIds : DqFile(d)
    \/ \E d \in DatasetIds : GoldBegin(d)
    \/ \E d \in DatasetIds : UnionFile(d)
    \/ \E d \in DatasetIds : TransformationDataQualityCheck(d)
    \/ B1Join
    \/ LayerJoin

SpecUnion == InitUnion /\ [][NextUnion]_vars

\* a turn of the union transformation of dataset g that published its frame
UnionPublished(g) ==
    /\ layer = "gold"
    /\ g \in DOMAIN task /\ g \in DOMAIN task'
    /\ task[g].st = "running" /\ task[g].pc = "union"
    /\ Len(logTrn') = Len(logTrn) + 1
    /\ logTrn'[Len(logTrn')].status = "SUCCEEDED"

\* the rows of the frame read from the dependencies before dependency k
RECURSIVE RowsBefore(_, _)
RowsBefore(deps, k) ==
    IF k = 1 THEN 0
    ELSE Len(DeltaTableReadLatest(tables, SourceLocation(deps[k - 1]))) + RowsBefore(deps, k - 1)

\* C33: in the frame a union turn publishes to a new gold table, every row
\* read from a dependency whose extra_values lists col=literal pairs carries
\* column col with that literal.
C33_ExtraValuesOnEveryRow ==
    [][\A g \in DOMAIN ctl.gold :
         LET m == ctl.gold[g]
             deps == get_transformation_dependency_master(m.process_id, m.dataset_id)
             gold == path_to_s3(m.transformation_location, ctl.env).s3_location
         IN (UnionPublished(m.dataset_id) /\ gold \notin DOMAIN tables) =>
               \A k \in DOMAIN deps : deps[k].extra_values # Null =>
                   \A p \in DOMAIN ExtraValues(deps[k].extra_values) :
                       \A i \in 1..Len(DeltaTableReadLatest(tables, SourceLocation(deps[k]))) :
                           LET r == tables'[gold][RowsBefore(deps, k) + i]
                               pair == ExtraValues(deps[k].extra_values)[p]
                           IN /\ pair.column_name \in DOMAIN r
                              /\ r[pair.column_name] = pair.value]_vars

\* C34: within one gold run a batch is transformed once: after a turn of the
\* transformation of a gold dataset has logged a batch, the task holds no
\* further entry of that batch to transform, however many log_dqm rows the
\* batch has.
C34_OneTransformPerBatch ==
    [][\A g \in DatasetIds :
         (GoldAttempt(g) /\ Len(logTrn') = Len(logTrn) + 1 /\ task'[g].st = "running") =>
             \A k \in DOMAIN task'[g].todo :
                 task'[g].todo[k].batch_id # logTrn'[Len(logTrn')].batch_id]_vars

\* C35: when log_dqm holds a SUCCEEDED row for a source file of a bronze
\* dataset, the staging snapshot of the dataset holds, under the batch_id of
\* the row, every row of the batch that fails none of the rules.
C35_SucceededMeansStaged ==
    \A k \in DOMAIN logDqm :
        (/\ logDqm[k].status = "SUCCEEDED"
         /\ logDqm[k].dataset_id \in {m.dataset_id : m \in SeqToSet(ctl.bronze)}) =>
            LET d == logDqm[k].dataset_id
                rules == get_dqm_detail(BronzeOf(d).process_id, d)
                passed == PassedFirst(LandedRows(d, logDqm[k].batch_id), rules, Len(rules))
            IN \A r \in SeqToSet(passed) :
                  r \in SeqToSet(StagedRows(tables, d, logDqm[k].batch_id))

\* the files of dataset d that log has rows of, none of them SUCCEEDED:
\* attempted at the stage of the log, and not done
Retryable(log, d) ==
    {r.source_file : r \in {x \in SeqToSet(log) : x.dataset_id = d}} \ Succeeded(log)

\* log_raw_process with its file_status read as the status of the other logs
RawStatus ==
    [i \in DOMAIN logRaw |-> [source_file |-> logRaw[i].source_file, dataset_id |-> logRaw[i].dataset_id,
                              status |-> logRaw[i].file_status]]

\* the step is the return of a call of layer kind
CallReturns(kind) == layer # "idle" /\ layer' = "idle" /\ run.layer = kind

\* the step is the selection of a stage by the task of dataset d
Selects(d, before, after) ==
    /\ d \in DOMAIN task /\ d \in DOMAIN task'
    /\ task[d].pc = before /\ task'[d].pc = after

\* C36: a file whose attempt at landing or at the quality gate left rows and
\* no SUCCEEDED row in the log of the stage is selected by the stage in the
\* next call of its layer that returns; a file with a SUCCEEDED row in the log
\* of a stage is not selected by the stage again.
C36_RetryOnRerun ==
    [][/\ \A d \in {m.dataset_id : m \in SeqToSet(ctl.bronze)} :
            /\ (CallReturns("bronze") /\ Retryable(RawStatus, d) # {}) =>
                   layer = "B2" /\ task[d].pc = "land"
            /\ (CallReturns("silver") /\ Retryable(logDqm, d) # {}) =>
                   task[d].pc = "dqfile"
            /\ Selects(d, "begin", "land") =>
                   \A k \in DOMAIN task'[d].todo : task'[d].todo[k] \notin Succeeded(RawStatus)
            /\ Selects(d, "begin", "std") =>
                   \A k \in DOMAIN task'[d].todo : task'[d].todo[k].source_file \notin Succeeded(logStd)
            /\ Selects(d, "dq", "dqfile") =>
                   \A k \in DOMAIN task'[d].todo : task'[d].todo[k].source_file \notin Succeeded(logDqm)
      ]_vars

\* the batches of bronze dataset d that breached critically on the first rule
\* of the dataset
Blocking(d) ==
    LET rules == get_dqm_detail(BronzeOf(d).process_id, d)
    IN {r.batch_id : r \in {x \in SeqToSet(logDqm) :
            /\ x.dataset_id = d
            /\ x.status = "FAILED"
            /\ x.criticality = "C"
            /\ Len(rules) > 0
            /\ x.qc_type = rules[1].qc_type}}

\* no batch of dataset d newer than b has a log_dqm row or a staged row
NothingNewerGated(d, b) ==
    /\ \A x \in SeqToSet(logDqm) : x.dataset_id = d => x.batch_id <= b
    /\ \A x \in SeqToSet(TableRows(tables, path_to_s3(BronzeOf(d).staging_location, ctl.env).s3_location)) :
          x.batch_id <= b

\* C37: once a batch of a dataset has breached critically on the first rule,
\* every silver call that returns has had the quality gate select the batch
\* and raise, and no newer batch of the dataset has a log_dqm row or a row in
\* staging.
C37_BreachBlocksDataset ==
    [][\A d \in {m.dataset_id : m \in SeqToSet(ctl.bronze)} : \A b \in Blocking(d) :
          /\ NothingNewerGated(d, b)
          /\ CallReturns("silver") => (task[d].pc = "dqfile" /\ task[d].st = "failed")]_vars

(***************************************************************************)
(* Change detection of the gold publish: one-row frames over three declared*)
(* columns, one of them the key, published into the table of gold dataset 3*)
(***************************************************************************)

\* the declared columns of the gold dataset, in order
ChangeColumns == <<"id", "val", "note">>

ChangeFrames ==
    {<<[id |-> i, val |-> v, note |-> n]>> : i \in {"1", "2"}, v \in {"A", "AB", Null}, n \in {"BC", "C"}}

\* the body of the loop of direct_transformation from the envelope on
ChangePublish ==
    /\ clock < MaxPublishes
    /\ \E frame \in ChangeFrames :
        LET target == path_to_s3(GoldOf(3).transformation_location, ctl.env)
            staging_df == Envelope(frame, ChangeColumns, clock + 1, Today)
        IN /\ tables' = Publish(tables, s3, staging_df, target, <<"id">>, clock + 1)
           /\ clock' = clock + 1
    /\ UNCHANGED <<ctl, day, remote, s3, logAcq, logRaw, logStd, logDqm, logTrn, layer, task, hist, run, faults>>

NextChange ==
    \/ ChangePublish
    \/ DayAdvance

SpecChange == InitScd /\ [][NextChange]_vars

\* C38: when an incoming row of key K differs from the active gold row of K
\* in a declared column, their sys_checksum values differ, and the merge
\* closes the active row and inserts the incoming row as the new version.
C38_ChangeDetected ==
    \A frame \in ChangeFrames :
        LET target == GoldTable
            staging_df == Envelope(frame, ChangeColumns, clock + 1, Today)
            after == DeltaTableWriterScdType2(target, staging_df, <<"id">>)
        IN \A i \in DOMAIN target :
             (/\ target[i].eff_end_dt = Sentinel
              /\ target[i].id = staging_df[1].id
              /\ \E c \in SeqToSet(ChangeColumns) : target[i][c] # staging_df[1][c]) =>
                 /\ target[i].sys_checksum # staging_df[1].sys_checksum
                 /\ after[i].eff_end_dt = staging_df[1].eff_strt_dt
                 /\ after[i].sys_del_flg = "Y"
                 /\ \E j \in DOMAIN after : j > Len(target) /\ after[j] = staging_df[1]

(***************************************************************************)
(* Silver calls after a first landing, where the insert of the             *)
(* log_standardization row can fail after the standardized snapshot was    *)
(* written.                                                                *)
(***************************************************************************)

InitStd ==
    /\ ctl \in RetryCatalogs \cup {RulesBase(<<DqmRuleOf(1, "domain", "val", "A,B", "NC", Null)>>)}
    /\ \E n \in SeqToSet(SrcNames) : Landed(n, FileRows(n))

NextStd ==
    \/ CallSilver
    \/ TaskStart(1)
    \/ SilverBegin(1)
    \/ StdFileLogged(1)
    \/ DqBegin(1)
    \/ DqFile(1)
    \/ LayerJoin

SpecStd == InitStd /\ [][NextStd]_vars

\* C39: the standardized snapshot of a dataset holds the rows of a landed
\* batch at most once, whatever attempts at the batch failed and were run
\* again.
C39_StandardizedOnce ==
    \A k \in DOMAIN logRaw :
        logRaw[k].file_status = "SUCCEEDED" =>
            Len(StandardizedRows(tables, logRaw[k].dataset_id, logRaw[k].batch_id))
                <= Len(LandingRows(logRaw[k].dataset_id, logRaw[k].batch_id))

(***************************************************************************)
(* Processes that lack the datasets of a layer: no acquisition row, no     *)
(* bronze dataset, no gold dataset.                                        *)
(***************************************************************************)

EmptyCatalogs ==
    LET c == Catalog("prod", 2, "SFTP", "bkt/in/", FALSE, Gold3, <<>>)
    IN {c,
        Catalog("prod", 2, "SFTP", "bkt/in/", FALSE, <<>>, <<>>),
        [c EXCEPT !.acq = <<>>],
        [c EXCEPT !.acq = <<>>, !.bronze = <<>>]}

InitEmpty == InitWith(EmptyCatalogs)

SpecEmpty == InitEmpty /\ [][NextDay]_vars

\* the datasets the first pool of a layer is sized by
LayerDatasets(kind) ==
    CASE kind = "bronze" -> PoolOrder("B1")
      [] kind = "silver" -> PoolOrder("silver")
      [] kind = "gold" -> PoolOrder("gold")

\* C40: a call of a layer of a process that has no dataset of the layer
\* returns at once with the error of a pool of no worker: no task is
\* submitted and no log row is inserted.
C40_EmptyLayerFails ==
    [][(layer = "idle" /\ (layer' # "idle" \/ hist' # hist)) =>
          /\ layer' # "idle" => Len(PoolOrder(layer')) > 0
          /\ (hist' # hist /\ Len(LayerDatasets(hist'[Len(hist')].layer)) = 0) =>
                /\ hist'[Len(hist')].err = "ValueError"
                /\ hist'[Len(hist')].tasks = <<>>
                /\ layer' = "idle" /\ task' = <<>>
                /\ UNCHANGED <<logAcq, logRaw, logStd, logDqm, logTrn, tables, s3>>]_vars

C40_Witness ==
    \E i \in DOMAIN hist :
        /\ Len(LayerDatasets(hist[i].layer)) = 0
        /\ hist[i].err = "ValueError"
        /\ hist[i].tasks = <<>>

====
